---- MODULE Spec2Model ----
(***************************************************************************)
(* The FF-A v1.0 proxy of the pKVM hypervisor (the second translation unit *)
(* of src/include/trace/hooks/cgroup.h, lines 22-606): the host's FF-A     *)
(* memory-management SMCs are trapped, checked against the host stage-2    *)
(* ownership record, reissued to the SPMD, and rolled back when the SPMD   *)
(* rejects them.                                                           *)
(*                                                                         *)
(* Numbers: TLC's integers are 32-bit signed, so every u32 input is drawn  *)
(* below 2^31 and a product that would leave that range is written in the  *)
(* algebraically equal form that stays inside it (noted at each place).    *)
(* Buffers are arrays of 32-bit words; byte offsets and lengths that are   *)
(* read as structure positions are multiples of 4.                         *)
(***************************************************************************)
EXTENDS Integers, Sequences, FiniteSets, TLC

(* ------------------------------ bounds -------------------------------- *)
\* Host CPUs that may trap into the proxy.
NCores == 2
\* Pages of physical memory that the ownership record tracks: 0..NPages-1.
NPages == 5
\* Words of each mailbox buffer that are modelled (the rest reads as zero).
BufWords == 24
\* Transfers the SPMD can hold at once (handles 1..MaxHandles).
MaxHandles == 2
\* Calls the host issues in one run.
MaxCalls == 4

(* ------------------------- program constants -------------------------- *)
HOST_FFA_ID == 0
PAGE_SHIFT == 12
FFA_PAGE_SHIFT == 12
KVM_FFA_MBOX_NR_PAGES == 1
U32_BITS == 32
FFA_RET_SUCCESS == 0
FFA_RET_NOT_SUPPORTED == -1
FFA_RET_INVALID_PARAMETERS == -2
FFA_RET_NO_MEMORY == -3
FFA_RET_DENIED == -6
FFA_RET_ABORTED == -8
\* sizeof(struct ffa_mem_region), ..._attributes, ffa_composite_mem_region,
\* ffa_mem_region_addr_range
SZ_MEM_REGION == 32
SZ_MEM_REGION_ATTRIBUTES == 16
SZ_COMPOSITE_MEM_REGION == 16
SZ_ADDR_RANGE == 16

PAGE_SIZE == 2 ^ PAGE_SHIFT
FFA_PAGE_SIZE == 2 ^ FFA_PAGE_SHIFT
MBOX_BYTES == KVM_FFA_MBOX_NR_PAGES * PAGE_SIZE

Cores == 1 .. NCores
Pages == 0 .. (NPages - 1)
Handles == 1 .. MaxHandles
\* The pages the host does not own (they belong to a guest).
GuestPages == { 1 }
GuestPage == CHOOSE p \in GuestPages : TRUE

NULL == << >>
\* Faulty variant: the mapping is never recorded.
Ptr_unrecorded(a) == << >>
Ptr(a) == << a >>
PAGE_ALIGNED(a) == a % PAGE_SIZE = 0
hyp_phys_to_pfn(a) == a \div PAGE_SIZE
PageAddr(p) == p * PAGE_SIZE

(* ------------------------- mailbox buffers ---------------------------- *)
ZeroBuf == [i \in 1 .. BufWords |-> 0]
\* The u32 at byte offset 4*w of a buffer.
W(buf, w) == IF w >= 0 /\ w < BufWords THEN buf[w + 1] ELSE 0

\* struct ffa_mem_region: sender_id is the u16 at byte 0, ep_count the u32
\* at byte 28, ep_mem_access[0].composite_off the u32 at byte 36.
sender_id(buf) == W(buf, 0) % 65536
ep_count(buf) == W(buf, 7)
composite_off(buf) == W(buf, 9)
\* struct ffa_composite_mem_region at byte offset off: addr_range_cnt is
\* the u32 at off + 4, constituents[i] starts at off + 16 + 16 * i with
\* address (u64) at +0 and pg_cnt (u32) at +8.
addr_range_cnt(buf, off) == W(buf, (off \div 4) + 1)
\* hyp_phys_to_pfn(range->address): the u64 is two words, low then high;
\* (lo + hi * 2^32) / PAGE_SIZE = lo / PAGE_SIZE + hi * 2^(32 - PAGE_SHIFT).
range_pfn(buf, off, i) ==
    hyp_phys_to_pfn(W(buf, (off \div 4) + 4 + 4 * i))
    + W(buf, (off \div 4) + 5 + 4 * i) * (2 ^ (U32_BITS - PAGE_SHIFT))
range_pg_cnt(buf, off, i) == W(buf, (off \div 4) + 6 + 4 * i)

(* ----------------------- what the host may write ---------------------- *)
\* A memory region descriptor as the host lays it out in its tx buffer:
\* header, one endpoint-access entry, and the composite region at byte 48
\* (word 12) whatever the composite_off field says.
RangeWords(ranges) ==
    [k \in 1 .. (4 * Len(ranges)) |->
        LET r == ranges[((k - 1) \div 4) + 1]
        IN CASE (k - 1) % 4 = 0 -> PageAddr(r.pfn)
             [] (k - 1) % 4 = 2 -> r.pg_cnt
             [] OTHER -> 0]
Pad(ws) == [i \in 1 .. BufWords |-> IF i <= Len(ws) THEN ws[i] ELSE 0]
MkDesc(sender, epc, off, cnt, ranges) ==
    Pad(<< sender, 0, 0, 0,   0, 0, 0, epc,   0, off, 0, 0,   0, cnt, 0, 0 >>
        \o RangeWords(ranges))

Rg(p, n) == [pfn |-> p, pg_cnt |-> n]
\* pg_cnt * FFA_PAGE_SIZE of this count is 2^32 + 4096.
WrapCount == (2 ^ (U32_BITS - FFA_PAGE_SHIFT)) + 1
\* addr_range_cnt * 16 of this count is 2^32 + 16.
WrapRanges == (2 ^ (U32_BITS - 4)) + 1
OffHdr == SZ_MEM_REGION + SZ_MEM_REGION_ATTRIBUTES

GoodRangeLists ==
    { << Rg(0, 1) >>, << Rg(0, 1), Rg(4, 1) >>,
      << Rg(4, 1), Rg(GuestPage, 1) >>, << Rg(0, WrapCount) >> }
GoodDescs == { MkDesc(HOST_FFA_ID, 1, OffHdr, Len(rs), rs) : rs \in GoodRangeLists }
BadDescs ==
         { MkDesc(1, 1, OffHdr, 1, << Rg(0, 1) >>),
           MkDesc(HOST_FFA_ID, 0, OffHdr, 1, << Rg(0, 1) >>),
           MkDesc(HOST_FFA_ID, 2, OffHdr, 1, << Rg(0, 1) >>),
           MkDesc(HOST_FFA_ID, 1, 0, 1, << Rg(0, 1) >>),
           MkDesc(HOST_FFA_ID, 1, MBOX_BYTES - 4, 1, << Rg(0, 1) >>),
           MkDesc(HOST_FFA_ID, 1, OffHdr, 2, << Rg(0, 1) >>),
           MkDesc(HOST_FFA_ID, 1, OffHdr, WrapRanges, << Rg(GuestPage, 1) >>) }
HostDescs == GoodDescs \cup BadDescs

XferFuncs == { "FFA_MEM_SHARE", "FFA_FN64_MEM_SHARE", "FFA_MEM_LEND", "FFA_FN64_MEM_LEND" }
XA(len, fraglen, mbz3, mbz4) == [x1 |-> len, x2 |-> fraglen, x3 |-> mbz3, x4 |-> mbz4]
\* Register sets that pass the register checks, and ones that do not.
GoodArgs == { XA(80, 80, 0, 0), XA(96, 96, 0, 0) }
BadArgs ==
    { XA(20, 10, 0, 0), XA(96, 80, 0, 0), XA(80, 96, 0, 0), XA(32, 32, 0, 0),
      XA(MBOX_BYTES + 4, MBOX_BYTES + 4, 0, 0),
      XA(80, 80, PAGE_SIZE, 0), XA(80, 80, 0, 1) }
XI(f, a, d) == [f |-> f, a |-> a, d |-> d]
\* The share and lend calls the host issues: every function id with every
\* well-formed descriptor, the malformed descriptors, and the register sets
\* that fail over a well-formed and a malformed descriptor.
XferInputs ==
    { XI(f, a, d) : f \in XferFuncs, a \in GoodArgs, d \in GoodDescs }
    \cup { XI("FFA_FN64_MEM_SHARE", a, d) : a \in GoodArgs, d \in BadDescs }
    \cup { XI(f, a, d) : f \in { "FFA_FN64_MEM_SHARE", "FFA_MEM_LEND" }, a \in BadArgs,
                         d \in { MkDesc(HOST_FFA_ID, 1, OffHdr, 1, << Rg(0, 1) >>),
                                 MkDesc(HOST_FFA_ID, 2, OffHdr, 1, << Rg(0, 1) >>) } }

MapInputs ==
    [tx : { PageAddr(GuestPage), PageAddr(2), PageAddr(2) + 8 },
     rx : { PageAddr(2), PageAddr(3), PageAddr(3) + 8 },
     n : { 1, 2 }]
UnmapIds == { HOST_FFA_ID, 1 }
ReclaimInputs == [h : 1 .. (MaxHandles + 1), fl : { 0, 1 }]

\* The calls two CPUs race with: one well-formed share whose ranges can all
\* be shared, one whose second range cannot, map, unmap and reclaim.
ConcXferInputs ==
    { XI("FFA_FN64_MEM_SHARE", XA(80, 80, 0, 0),
         MkDesc(HOST_FFA_ID, 1, OffHdr, 1, << Rg(0, 1) >>)),
      XI("FFA_FN64_MEM_LEND", XA(96, 96, 0, 0),
         MkDesc(HOST_FFA_ID, 1, OffHdr, 2, << Rg(4, 1), Rg(GuestPage, 1) >>)) }
ConcMapInputs == { [tx |-> PageAddr(2), rx |-> PageAddr(3), n |-> 1] }
ConcUnmapIds == { HOST_FFA_ID }
ConcReclaimInputs == { [h |-> 1, fl |-> 0] }

(* ------------------------------ startup ------------------------------- *)
EOPNOTSUPP == 95
EINVAL == 22
ARM_SMCCC_VERSION_1_1 == 65537
ARM_SMCCC_VERSION_1_2 == 65538
\* An FF-A version: major in bits 30..16, minor in bits 15..0.
FFA_VERSION_OF(major, minor) == major * (2 ^ 16) + minor
FFA_VERSION_1_0 == FFA_VERSION_OF(1, 0)
FFA_FEAT_RXTX_MIN_SZ_4K == 0
FFA_FEAT_RXTX_MIN_SZ_64K == 1
FFA_FEAT_RXTX_MIN_SZ_16K == 2
SZ_4K == 4096
SZ_16K == 16384
SZ_64K == 65536
\* What hyp_ffa_init is built with and answered: the SMCCC version of the
\* firmware, the page size of the build, a0 of the answer to FFA_VERSION,
\* a0 and a2 of the answers to FFA_ID_GET and to FFA_FEATURES.
BootInputs ==
    [smccc_version : { ARM_SMCCC_VERSION_1_1, ARM_SMCCC_VERSION_1_2 },
     page_size : { SZ_4K, SZ_16K, SZ_64K },
     ver : { FFA_RET_NOT_SUPPORTED, FFA_VERSION_OF(0, 9), FFA_VERSION_1_0,
             FFA_VERSION_OF(1, 1), FFA_VERSION_OF(2, 0) },
     id_a0 : { "FFA_SUCCESS", "FFA_ERROR" },
     id_a2 : { HOST_FFA_ID, 1 },
     feat_a0 : { "FFA_SUCCESS", "FFA_ERROR" },
     feat_a2 : { FFA_FEAT_RXTX_MIN_SZ_4K, FFA_FEAT_RXTX_MIN_SZ_64K,
                 FFA_FEAT_RXTX_MIN_SZ_16K, 3 }]
GoodBoot ==
    [smccc_version |-> ARM_SMCCC_VERSION_1_2, page_size |-> SZ_4K, ver |-> FFA_VERSION_1_0,
     id_a0 |-> "FFA_SUCCESS", id_a2 |-> HOST_FFA_ID,
     feat_a0 |-> "FFA_SUCCESS", feat_a2 |-> FFA_FEAT_RXTX_MIN_SZ_4K]
\* The switch of lines 578-590: min_rxtx_sz, or 0 for the default case.
min_rxtx_sz(a2) ==
    CASE a2 = FFA_FEAT_RXTX_MIN_SZ_4K -> SZ_4K
      [] a2 = FFA_FEAT_RXTX_MIN_SZ_16K -> SZ_16K
      [] a2 = FFA_FEAT_RXTX_MIN_SZ_64K -> SZ_64K
      [] OTHER -> 0
\* [ret, set, smcs]: the value returned, whether ffa_buffers and
\* host_kvm.ffa (the buffers and the locks) were assigned, the SMCs issued.
BootOut(ret, set, smcs) == [ret |-> ret, set |-> set, smcs |-> smcs]
\* Faulty variant: the minimum buffer size is not compared with the page size.
hyp_ffa_init_no_min_check(in) ==
    IF in.smccc_version < ARM_SMCCC_VERSION_1_2 THEN BootOut(0, FALSE, << >>)
    ELSE IF in.ver = FFA_RET_NOT_SUPPORTED THEN BootOut(0, FALSE, << "FFA_VERSION" >>)
    ELSE IF in.ver # FFA_VERSION_1_0 THEN BootOut(-EOPNOTSUPP, FALSE, << "FFA_VERSION" >>)
    ELSE IF in.id_a0 # "FFA_SUCCESS"
    THEN BootOut(-EOPNOTSUPP, FALSE, << "FFA_VERSION", "FFA_ID_GET" >>)
    ELSE IF in.id_a2 # HOST_FFA_ID
    THEN BootOut(-EINVAL, FALSE, << "FFA_VERSION", "FFA_ID_GET" >>)
    ELSE IF in.feat_a0 # "FFA_SUCCESS"
    THEN BootOut(-EOPNOTSUPP, FALSE, << "FFA_VERSION", "FFA_ID_GET", "FFA_FEATURES" >>)
    ELSE IF min_rxtx_sz(in.feat_a2) = 0
    THEN BootOut(-EINVAL, FALSE, << "FFA_VERSION", "FFA_ID_GET", "FFA_FEATURES" >>)
    ELSE BootOut(0, TRUE, << "FFA_VERSION", "FFA_ID_GET", "FFA_FEATURES" >>)
hyp_ffa_init(in) ==
    IF in.smccc_version < ARM_SMCCC_VERSION_1_2 THEN BootOut(0, FALSE, << >>)
    ELSE IF in.ver = FFA_RET_NOT_SUPPORTED THEN BootOut(0, FALSE, << "FFA_VERSION" >>)
    ELSE IF in.ver # FFA_VERSION_1_0 THEN BootOut(-EOPNOTSUPP, FALSE, << "FFA_VERSION" >>)
    ELSE IF in.id_a0 # "FFA_SUCCESS"
    THEN BootOut(-EOPNOTSUPP, FALSE, << "FFA_VERSION", "FFA_ID_GET" >>)
    ELSE IF in.id_a2 # HOST_FFA_ID
    THEN BootOut(-EINVAL, FALSE, << "FFA_VERSION", "FFA_ID_GET" >>)
    ELSE IF in.feat_a0 # "FFA_SUCCESS"
    THEN BootOut(-EOPNOTSUPP, FALSE, << "FFA_VERSION", "FFA_ID_GET", "FFA_FEATURES" >>)
    ELSE IF min_rxtx_sz(in.feat_a2) = 0
    THEN BootOut(-EINVAL, FALSE, << "FFA_VERSION", "FFA_ID_GET", "FFA_FEATURES" >>)
    ELSE IF min_rxtx_sz(in.feat_a2) > in.page_size
    THEN BootOut(-EOPNOTSUPP, FALSE, << "FFA_VERSION", "FFA_ID_GET", "FFA_FEATURES" >>)
    ELSE BootOut(0, TRUE, << "FFA_VERSION", "FFA_ID_GET", "FFA_FEATURES" >>)
NotBooted(in) == [in |-> in, ran |-> FALSE, out |-> BootOut(0, FALSE, << >>)]
Booted(in) == [in |-> in, ran |-> TRUE, out |-> hyp_ffa_init(in)]

(* ------------------------------- state -------------------------------- *)
VARIABLES
    pc,           \* per core: where its trapped call stands
    regs,         \* per core: the host's x0..x4 of the trapped call
    res,          \* per core: struct arm_smccc_res of the call
    offset,       \* per core: the local variable offset (reg = buf + offset)
    lock,         \* host_kvm.ffa.lock: 0 when free, else the holding core
    host_tx,      \* host_kvm.ffa.tx: NULL or the host's tx buffer
    host_rx,      \* host_kvm.ffa.rx
    host_txbuf,   \* the words the host has in its tx buffer
    ffa_buffers,  \* the proxy's own pair: [tx, rx], word arrays
    owner,        \* host stage-2 ownership record, per page
    spmd_mapped,  \* the SPMD has the proxy's pair mapped
    spmd_held,    \* handle -> [live, ranges] of the transfers the SPMD holds
    pre,          \* per core: ownership record when its call began
    trace,        \* per core: what its call has done so far
    ncalls,       \* calls issued so far
    life,         \* the last map and unmap calls that reached the grants, oldest first
    s2_fail,      \* the pfns at which an unshare fails whatever the record says
    boot          \* hyp_ffa_init: what it is answered, whether it has run, what it did

vars == << pc, regs, res, offset, lock, host_tx, host_rx, host_txbuf,
           ffa_buffers, owner, spmd_mapped, spmd_held, pre, trace, ncalls, life,
           s2_fail, boot >>

Unset == [a0 |-> "UNSET", a1 |-> 0, a2 |-> 0, a3 |-> 0]
NoRegs == [x0 |-> "NONE", x1 |-> 0, x2 |-> 0, x3 |-> 0, x4 |-> 0]
NoXfer == [live |-> FALSE, ranges |-> << >>]

Init ==
    /\ pc = [c \in Cores |-> "idle"]
    /\ regs = [c \in Cores |-> NoRegs]
    /\ res = [c \in Cores |-> Unset]
    /\ offset = [c \in Cores |-> 0]
    /\ lock = 0
    /\ host_tx = NULL
    /\ host_rx = NULL
    /\ host_txbuf = ZeroBuf
    /\ ffa_buffers = [tx |-> ZeroBuf, rx |-> ZeroBuf]
    /\ owner = [p \in Pages |-> IF p \in GuestPages THEN "guest" ELSE "owned"]
    /\ spmd_mapped = FALSE
    /\ spmd_held = [h \in Handles |-> NoXfer]
    /\ pre = [c \in Cores |-> [p \in Pages |-> IF p \in GuestPages THEN "guest" ELSE "owned"]]
    /\ trace = [c \in Cores |-> << >>]
    /\ ncalls = 0
    /\ life = << >>
    /\ s2_fail = {}
    /\ boot = Booted(GoodBoot)

(* ----------------------------- events --------------------------------- *)
\* trace records, in order: lock and unlock, each ownership-record call
\* (with its pfn, page count and outcome), each SMC issued to the SPMD (with
\* its function and first two arguments) and the SPMD's answer to it, each
\* WARN_ON that fired.
Ev(op, f, a, b, ok) ==
    [op |-> op, f |-> f, a |-> a, b |-> b, c |-> 0, ok |-> ok, r |-> Unset]
EvAns(r) == [op |-> "ans", f |-> "", a |-> 0, b |-> 0, c |-> 0, ok |-> TRUE, r |-> r]
EvWarn == Ev("warn", "", 0, 0, TRUE)
EvLock == Ev("lock", "", 0, 0, TRUE)
EvUnlock == Ev("unlock", "", 0, 0, TRUE)
EvSmc(f, a, b) == Ev("smc", f, a, b, TRUE)
\* An SMC with three arguments.
EvSmc3(f, a, b, c) == [Ev("smc", f, a, b, TRUE) EXCEPT !.c = c]

(* ------------------------- result encoding ---------------------------- *)
ffa_to_smccc_error(ffa_errno) ==
    [a0 |-> "FFA_ERROR", a1 |-> 0, a2 |-> ffa_errno, a3 |-> 0]
\* Faulty variant: on success the result words are not assigned.
ffa_to_smccc_res_prop_error_only(ret, prop) ==
    IF ret = FFA_RET_SUCCESS
    THEN [a0 |-> "UNSET", a1 |-> 0, a2 |-> 0, a3 |-> 0]
    ELSE ffa_to_smccc_error(ret)
ffa_to_smccc_res_prop(ret, prop) ==
    IF ret = FFA_RET_SUCCESS
    THEN [a0 |-> "FFA_SUCCESS", a1 |-> 0, a2 |-> prop, a3 |-> 0]
    ELSE ffa_to_smccc_error(ret)
ffa_to_smccc_res(ret) == ffa_to_smccc_res_prop(ret, 0)

(* ------------------- host stage-2 ownership record -------------------- *)
InMemory(pfn, npages) == pfn >= 0 /\ npages >= 0 /\ pfn + npages <= NPages
AllPagesAre(own, pfn, npages, st) ==
    npages = 0 \/ (InMemory(pfn, npages) /\ \A p \in pfn .. (pfn + npages - 1) : own[p] = st)
SetPages(own, pfn, npages, st) ==
    [p \in Pages |-> IF p >= pfn /\ p < pfn + npages THEN st ELSE own[p]]
\* Each returns [ret, own]: ret is 0 and the pages change state, or ret is
\* nonzero and nothing changes.
Transition(own, pfn, npages, from, to) ==
    IF AllPagesAre(own, pfn, npages, from)
    THEN [ret |-> 0, own |-> SetPages(own, pfn, npages, to)]
    ELSE [ret |-> 1, own |-> own]
__pkvm_host_share_ffa(own, pfn, npages) == Transition(own, pfn, npages, "owned", "shared_ffa")
\* The host stage-2 code can fail to unshare for a reason of its own (it
\* has to change the page table), and then leaves the record as it was.
__pkvm_host_unshare_ffa(own, pfn, npages) ==
    IF pfn \in s2_fail
    THEN [ret |-> 1, own |-> own]
    ELSE Transition(own, pfn, npages, "shared_ffa", "owned")
__pkvm_host_share_hyp(own, pfn) == Transition(own, pfn, 1, "owned", "shared_hyp")
__pkvm_host_unshare_hyp(own, pfn) ==
    IF pfn \in s2_fail
    THEN [ret |-> 1, own |-> own]
    ELSE Transition(own, pfn, 1, "shared_hyp", "owned")

(* -------------------- ownership transition engine --------------------- *)
\* u64 npages = (range->pg_cnt * FFA_PAGE_SIZE) / PAGE_SIZE: the product of a
\* u32 and an int is a u32, so it is taken modulo 2^32 before the division.
\* (pg_cnt * 2^s) mod 2^32 = (pg_cnt mod 2^(32-s)) * 2^s.
RangeNPages(pg_cnt) ==
    ((pg_cnt % (2 ^ (U32_BITS - FFA_PAGE_SHIFT))) * FFA_PAGE_SIZE) \div PAGE_SIZE

\* The loops return [i, own, ev]: the index they stopped at, the record,
\* and one event per __pkvm_host_(un)share_ffa call. ranges is the pair
\* buf, off: the constituents of the composite region at buf + off.
RECURSIVE ShareLoop(_, _, _, _, _)
ShareLoop(own, buf, off, i, nranges) ==
    IF i >= nranges THEN [i |-> i, own |-> own, ev |-> << >>]
    ELSE LET npages == RangeNPages(range_pg_cnt(buf, off, i))
             pfn == range_pfn(buf, off, i)
             r == __pkvm_host_share_ffa(own, pfn, npages)
         IN IF r.ret # 0
            THEN [i |-> i, own |-> own, ev |-> << Ev("share", "", pfn, npages, FALSE) >>]
            ELSE LET t == ShareLoop(r.own, buf, off, i + 1, nranges)
                 IN [i |-> t.i, own |-> t.own,
                     ev |-> << Ev("share", "", pfn, npages, TRUE) >> \o t.ev]
__ffa_host_share_ranges(own, buf, off, nranges) == ShareLoop(own, buf, off, 0, nranges)

RECURSIVE UnshareLoop(_, _, _, _, _)
UnshareLoop(own, buf, off, i, nranges) ==
    IF i >= nranges THEN [i |-> i, own |-> own, ev |-> << >>]
    ELSE LET npages == RangeNPages(range_pg_cnt(buf, off, i))
             pfn == range_pfn(buf, off, i)
             r == __pkvm_host_unshare_ffa(own, pfn, npages)
         IN IF r.ret # 0
            THEN [i |-> i, own |-> own, ev |-> << Ev("unshare", "", pfn, npages, FALSE) >>]
            ELSE LET t == UnshareLoop(r.own, buf, off, i + 1, nranges)
                 IN [i |-> t.i, own |-> t.own,
                     ev |-> << Ev("unshare", "", pfn, npages, TRUE) >> \o t.ev]
__ffa_host_unshare_ranges(own, buf, off, nranges) == UnshareLoop(own, buf, off, 0, nranges)

\* Faulty variant: the partial share is not rolled back.
ffa_host_share_ranges_no_rollback(own, buf, off, nranges) ==
    LET s == __ffa_host_share_ranges(own, buf, off, nranges)
    IN [ret |-> IF s.i # nranges THEN FFA_RET_DENIED ELSE 0, own |-> s.own, ev |-> s.ev]
\* Faulty variant: the unshare does nothing and reports success.
ffa_host_unshare_ranges_skipped(own, buf, off, nranges) ==
    [ret |-> 0, own |-> own, ev |-> << >>]

\* Faulty variant: the ranges unshared before the failure are not shared again.
ffa_host_unshare_ranges_no_reshare(own, buf, off, nranges) ==
    LET u == __ffa_host_unshare_ranges(own, buf, off, nranges)
    IN [ret |-> IF u.i # nranges THEN FFA_RET_DENIED ELSE 0, own |-> u.own, ev |-> u.ev]

\* Both return [ret, own, ev]. WARN_ON(x) fires when x is nonzero, and x is
\* here the number of ranges the rollback loop got through.
ffa_host_share_ranges(own, buf, off, nranges) ==
    LET s == __ffa_host_share_ranges(own, buf, off, nranges)
    IN IF s.i # nranges
       THEN LET u == __ffa_host_unshare_ranges(s.own, buf, off, s.i)
            IN [ret |-> FFA_RET_DENIED, own |-> u.own,
                ev |-> s.ev \o u.ev \o (IF u.i # 0 THEN << EvWarn >> ELSE << >>)]
       ELSE [ret |-> 0, own |-> s.own, ev |-> s.ev]
ffa_host_unshare_ranges(own, buf, off, nranges) ==
    LET u == __ffa_host_unshare_ranges(own, buf, off, nranges)
    IN IF u.i # nranges
       THEN LET s == __ffa_host_share_ranges(u.own, buf, off, u.i)
            IN [ret |-> FFA_RET_DENIED, own |-> s.own,
                ev |-> u.ev \o s.ev \o (IF s.i # 0 THEN << EvWarn >> ELSE << >>)]
       ELSE [ret |-> 0, own |-> u.own, ev |-> u.ev]

(* ------------------------------ the lock ------------------------------ *)
\* Faulty variant: the lock never makes a caller wait.
hyp_spin_lock_free_always(l) == TRUE
\* hyp_spin_lock(&host_kvm.ffa.lock) returns once the lock is free.
hyp_spin_lock_free(l) == l = 0

(* ------------------------------ the SPMD ------------------------------ *)
\* hyp_ffa_init is given pages of the hypervisor's own memory, none of the
\* host's, and sets ffa_buffers.tx = pages and ffa_buffers.rx = pages +
\* KVM_FFA_MBOX_NR_PAGES * PAGE_SIZE; these are their physical addresses.
pages == PageAddr(NPages)
ffa_buffers_tx_phys == pages
ffa_buffers_rx_phys == pages + KVM_FFA_MBOX_NR_PAGES * PAGE_SIZE
\* spmd_map_ffa_buffers: the FFA_FN64_RXTX_MAP it issues.
spmd_map_ffa_buffers(ffa_page_count) ==
    EvSmc3("FFA_FN64_RXTX_MAP", ffa_buffers_tx_phys, ffa_buffers_rx_phys, ffa_page_count)
\* The descriptor the SPMD reads from the proxy's tx buffer on a share or
\* lend: the constituent ranges with their declared page counts.
\* Faulty variant: the SPMD is given the host's tx buffer to read.
SpmdRanges_host_tx(buf) ==
    LET off == composite_off(host_txbuf)
    IN [k \in 1 .. addr_range_cnt(host_txbuf, off) |->
           Rg(range_pfn(host_txbuf, off, k - 1), range_pg_cnt(host_txbuf, off, k - 1))]
SpmdRanges(buf) ==
    LET off == composite_off(buf)
    IN [k \in 1 .. addr_range_cnt(buf, off) |->
           Rg(range_pfn(buf, off, k - 1), range_pg_cnt(buf, off, k - 1))]
FreeHandles == { h \in Handles : ~spmd_held[h].live }
SpmdErrors == { FFA_RET_DENIED, FFA_RET_NO_MEMORY }
SpmdError(e) == [a0 |-> "FFA_ERROR", a1 |-> 0, a2 |-> e, a3 |-> 0]
SpmdSuccess(w2, w3) == [a0 |-> "FFA_SUCCESS", a1 |-> 0, a2 |-> w2, a3 |-> w3]
\* The pages the SPMD holds: those of the transfers it accepted and has
\* not given back.
SpmdHolds(p) ==
    \E h \in Handles :
        /\ spmd_held[h].live
        /\ \E k \in 1 .. Len(spmd_held[h].ranges) :
              LET r == spmd_held[h].ranges[k]
              IN p >= r.pfn /\ p - r.pfn < r.pg_cnt

(* ------------------------- the host's writes -------------------------- *)
\* The host owns its tx buffer and may rewrite it whenever it runs. A write
\* before the proxy copies the buffer is the choice of descriptor made in
\* XferCall; this is a write after the copy, while the SPMD has the call.
HostWrite ==
    /\ \E c \in Cores : pc[c] = "xfer_smc"
    /\ \E d \in HostDescs : host_txbuf' = d
    /\ host_txbuf' # host_txbuf
    /\ UNCHANGED << boot, s2_fail, life, pc, regs, res, offset, lock, host_tx, host_rx, ffa_buffers,
                    owner, spmd_mapped, spmd_held, pre, trace, ncalls >>

(* -------------------- FFA_MEM_SHARE / FFA_MEM_LEND -------------------- *)
\* kvm_host_ffa_handler: the function id do_ffa_mem_xfer is instantiated with.
XferFuncId(x0) ==
    IF x0 \in { "FFA_MEM_SHARE", "FFA_FN64_MEM_SHARE" }
    THEN "FFA_FN64_MEM_SHARE" ELSE "FFA_FN64_MEM_LEND"

\* Faulty variant: fraglen > len is not rejected.
XferRegCheck_no_len_check(len, fraglen, addr_mbz, npages_mbz) ==
    IF addr_mbz # 0 \/ npages_mbz # 0 \/ fraglen > MBOX_BYTES
    THEN FFA_RET_INVALID_PARAMETERS
    ELSE IF fraglen < len
    THEN FFA_RET_ABORTED
    ELSE IF fraglen < SZ_MEM_REGION + SZ_MEM_REGION_ATTRIBUTES
    THEN FFA_RET_INVALID_PARAMETERS
    ELSE 0
\* Faulty variant: the minimal-header check comes before the fragmentation check.
XferRegCheck_header_first(len, fraglen, addr_mbz, npages_mbz) ==
    IF addr_mbz # 0 \/ npages_mbz # 0 \/ fraglen > len \/ fraglen > MBOX_BYTES
    THEN FFA_RET_INVALID_PARAMETERS
    ELSE IF fraglen < SZ_MEM_REGION + SZ_MEM_REGION_ATTRIBUTES
    THEN FFA_RET_INVALID_PARAMETERS
    ELSE IF fraglen < len
    THEN FFA_RET_ABORTED
    ELSE 0
\* Faulty variant: the reserved address register is not checked.
XferRegCheck_no_addr_mbz(len, fraglen, addr_mbz, npages_mbz) ==
    IF npages_mbz # 0 \/ fraglen > len \/ fraglen > MBOX_BYTES
    THEN FFA_RET_INVALID_PARAMETERS
    ELSE IF fraglen < len
    THEN FFA_RET_ABORTED
    ELSE IF fraglen < SZ_MEM_REGION + SZ_MEM_REGION_ATTRIBUTES
    THEN FFA_RET_INVALID_PARAMETERS
    ELSE 0
\* The checks of do_ffa_mem_xfer on the registers alone: the ret they leave.
XferRegCheck(len, fraglen, addr_mbz, npages_mbz) ==
    IF addr_mbz # 0 \/ npages_mbz # 0 \/ fraglen > len \/ fraglen > MBOX_BYTES
    THEN FFA_RET_INVALID_PARAMETERS
    ELSE IF fraglen < len
    THEN FFA_RET_ABORTED
    ELSE IF fraglen < SZ_MEM_REGION + SZ_MEM_REGION_ATTRIBUTES
    THEN FFA_RET_INVALID_PARAMETERS
    ELSE 0

\* memcpy(buf, host_kvm.ffa.tx, fraglen): the first fraglen bytes change.
memcpy(dst, src, n) == [i \in 1 .. BufWords |-> IF 4 * i <= n THEN src[i] ELSE dst[i]]

\* Faulty variant: the number of endpoint-access entries is not checked.
HeaderBad_no_ep_count(buf) ==
    composite_off(buf) = 0 \/ sender_id(buf) # HOST_FFA_ID
HeaderBad(buf) ==
    composite_off(buf) = 0 \/ ep_count(buf) # 1 \/ sender_id(buf) # HOST_FFA_ID
CompositeExceeds(fraglen, off) == fraglen < off + SZ_COMPOSITE_MEM_REGION
\* Faulty variant: the product addr_range_cnt * sizeof(range) is taken in 32 bits,
\* (cnt * 16) mod 2^32 being (cnt mod 2^28) * 16.
RangeArrayExceeds_u32(fraglen, off, cnt) ==
    \/ CompositeExceeds(fraglen, off)
    \/ cnt % (2 ^ (U32_BITS - 4)) > (fraglen - off - SZ_COMPOSITE_MEM_REGION) \div SZ_ADDR_RANGE
\* Faulty variant: the extent of the range array is not checked.
RangeArrayExceeds_header_only(fraglen, off, cnt) == CompositeExceeds(fraglen, off)
\* fraglen < offset + sizeof(composite) + addr_range_cnt * sizeof(range), in
\* size_t (64-bit) arithmetic, which cannot wrap for u32 operands. With
\* d = fraglen - offset - sizeof(composite) >= 0 this is cnt * 16 > d, that
\* is cnt > d / 16 rounded down.
RangeArrayExceeds(fraglen, off, cnt) ==
    \/ CompositeExceeds(fraglen, off)
    \/ cnt > (fraglen - off - SZ_COMPOSITE_MEM_REGION) \div SZ_ADDR_RANGE

\* The checks of do_ffa_mem_xfer on the copied fragment: the ret they leave.
XferBufCheck(buf, fraglen) ==
    LET off == composite_off(buf)
    IN IF HeaderBad(buf) THEN FFA_RET_INVALID_PARAMETERS
       ELSE IF CompositeExceeds(fraglen, off) THEN FFA_RET_INVALID_PARAMETERS
       ELSE IF RangeArrayExceeds(fraglen, off, addr_range_cnt(buf, off))
       THEN FFA_RET_INVALID_PARAMETERS
       ELSE 0

\* The host has written a descriptor to its tx buffer; the call traps and
\* its registers are read and checked (lines 316-343).
XferCall(c, inputs) ==
    /\ pc[c] = "idle"
    /\ ncalls < MaxCalls
    /\ ncalls' = ncalls + 1
    /\ \E in \in inputs :
          LET a == in.a
              ret == XferRegCheck(a.x1, a.x2, a.x3, a.x4)
          IN /\ host_txbuf' = in.d
             /\ regs' = [regs EXCEPT ![c] = [x0 |-> in.f] @@ a]
             /\ res' = [res EXCEPT ![c] = IF ret # 0 THEN ffa_to_smccc_res(ret) ELSE Unset]
             /\ pc' = [pc EXCEPT ![c] = IF ret # 0 THEN "idle" ELSE "xfer_lock"]
    /\ pre' = [pre EXCEPT ![c] = owner]
    /\ trace' = [trace EXCEPT ![c] = << >>]
    /\ offset' = [offset EXCEPT ![c] = 0]
    /\ UNCHANGED << boot, s2_fail, life, lock, host_tx, host_rx, ffa_buffers, owner,
                    spmd_mapped, spmd_held >>

\* Faulty variant: the fragment is copied and shared whether or not a pair is mapped.
XferLocked_no_map_check(c) ==
    /\ pc[c] = "xfer_lock"
    /\ hyp_spin_lock_free(lock)
    /\ pre' = [pre EXCEPT ![c] = owner]
    /\ LET fraglen == regs[c].x2
                buf == memcpy(ffa_buffers.tx, host_txbuf, fraglen)
                off == composite_off(buf)
                chk == XferBufCheck(buf, fraglen)
                sh == ffa_host_share_ranges(owner, buf, off, addr_range_cnt(buf, off))
                cpy == << EvLock, Ev("memcpy", "", fraglen, 0, TRUE) >>
            IN /\ ffa_buffers' = [ffa_buffers EXCEPT !.tx = buf]
               /\ offset' = [offset EXCEPT ![c] = off]
               /\ IF chk # 0
                  THEN /\ res' = [res EXCEPT ![c] = ffa_to_smccc_res(chk)]
                       /\ pc' = [pc EXCEPT ![c] = "idle"]
                       /\ trace' = [trace EXCEPT ![c] = cpy \o << EvUnlock >>]
                       /\ lock' = 0
                       /\ UNCHANGED owner
                  ELSE IF sh.ret # 0
                  THEN /\ res' = [res EXCEPT ![c] = ffa_to_smccc_res(sh.ret)]
                       /\ pc' = [pc EXCEPT ![c] = "idle"]
                       /\ trace' = [trace EXCEPT ![c] = cpy \o sh.ev \o << EvUnlock >>]
                       /\ lock' = 0
                       /\ owner' = sh.own
                  ELSE /\ res' = res
                       /\ pc' = [pc EXCEPT ![c] = "xfer_smc"]
                       /\ trace' = [trace EXCEPT ![c] =
                              cpy \o sh.ev
                              \o << EvSmc(XferFuncId(regs[c].x0), regs[c].x1, fraglen) >>]
                       /\ lock' = c
                       /\ owner' = sh.own
    /\ UNCHANGED << boot, s2_fail, life, ncalls, regs, host_tx, host_rx, host_txbuf, spmd_mapped, spmd_held >>

\* Lock taken; mapping check, copy, header and extent checks, local share,
\* and (when all pass) the SMC to the SPMD is issued (lines 345-377).
XferLocked(c) ==
    /\ pc[c] = "xfer_lock"
    /\ hyp_spin_lock_free(lock)
    /\ pre' = [pre EXCEPT ![c] = owner]
    /\ IF host_tx = NULL
       THEN /\ res' = [res EXCEPT ![c] = ffa_to_smccc_res(FFA_RET_INVALID_PARAMETERS)]
            /\ pc' = [pc EXCEPT ![c] = "idle"]
            /\ trace' = [trace EXCEPT ![c] = << EvLock, EvUnlock >>]
            /\ lock' = 0
            /\ UNCHANGED << offset, ffa_buffers, owner >>
       ELSE LET fraglen == regs[c].x2
                buf == memcpy(ffa_buffers.tx, host_txbuf, fraglen)
                off == composite_off(buf)
                chk == XferBufCheck(buf, fraglen)
                sh == ffa_host_share_ranges(owner, buf, off, addr_range_cnt(buf, off))
                cpy == << EvLock, Ev("memcpy", "", fraglen, 0, TRUE) >>
            IN /\ ffa_buffers' = [ffa_buffers EXCEPT !.tx = buf]
               /\ offset' = [offset EXCEPT ![c] = off]
               /\ IF chk # 0
                  THEN /\ res' = [res EXCEPT ![c] = ffa_to_smccc_res(chk)]
                       /\ pc' = [pc EXCEPT ![c] = "idle"]
                       /\ trace' = [trace EXCEPT ![c] = cpy \o << EvUnlock >>]
                       /\ lock' = 0
                       /\ UNCHANGED owner
                  ELSE IF sh.ret # 0
                  THEN /\ res' = [res EXCEPT ![c] = ffa_to_smccc_res(sh.ret)]
                       /\ pc' = [pc EXCEPT ![c] = "idle"]
                       /\ trace' = [trace EXCEPT ![c] = cpy \o sh.ev \o << EvUnlock >>]
                       /\ lock' = 0
                       /\ owner' = sh.own
                  ELSE /\ res' = res
                       /\ pc' = [pc EXCEPT ![c] = "xfer_smc"]
                       /\ trace' = [trace EXCEPT ![c] =
                              cpy \o sh.ev
                              \o << EvSmc(XferFuncId(regs[c].x0), regs[c].x1, fraglen) >>]
                       /\ lock' = c
                       /\ owner' = sh.own
    /\ UNCHANGED << boot, s2_fail, life, ncalls, regs, host_tx, host_rx, host_txbuf, spmd_mapped, spmd_held >>

\* The SPMD answers spmd_mem_xfer; on anything but FFA_SUCCESS the ranges
\* are unshared again; unlock and return (lines 377-388).
XferSmcRet(c) ==
    /\ pc[c] = "xfer_smc"
    /\ \/ \E h \in FreeHandles :
             /\ spmd_mapped
             /\ h = CHOOSE m \in FreeHandles : \A k \in FreeHandles : m <= k
             /\ spmd_held' = [spmd_held EXCEPT ![h] =
                                 [live |-> TRUE, ranges |-> SpmdRanges(ffa_buffers.tx)]]
             /\ res' = [res EXCEPT ![c] = SpmdSuccess(h, 0)]
             /\ trace' = [trace EXCEPT ![c] = @ \o << EvAns(SpmdSuccess(h, 0)), EvUnlock >>]
             /\ UNCHANGED owner
       \/ \E e \in SpmdErrors :
             LET un == ffa_host_unshare_ranges(owner, ffa_buffers.tx, offset[c],
                                               addr_range_cnt(ffa_buffers.tx, offset[c]))
             IN /\ res' = [res EXCEPT ![c] = SpmdError(e)]
                /\ owner' = un.own
                /\ trace' = [trace EXCEPT ![c] =
                       @ \o << EvAns(SpmdError(e)) >> \o un.ev
                       \o (IF un.ret # 0 THEN << EvWarn >> ELSE << >>)
                       \o << EvUnlock >>]
                /\ UNCHANGED spmd_held
    /\ pc' = [pc EXCEPT ![c] = "idle"]
    /\ lock' = 0
    /\ UNCHANGED << boot, s2_fail, life, ncalls, regs, offset, host_tx, host_rx, host_txbuf, ffa_buffers,
                    spmd_mapped, pre >>

(* --------------------------- FFA_RXTX_MAP ----------------------------- *)
\* What a map or unmap call that took the lock leaves behind, read when it
\* returns: its registers and result, whether every SMC it issued was
\* answered FFA_SUCCESS, whether every grant it asked for was given, and the mapping and hypervisor grants it leaves.
LifeEntry(c, op) ==
    [op |-> op, x1 |-> regs[c].x1, x2 |-> regs[c].x2, x3 |-> regs[c].x3,
     res |-> res'[c],
     spmd_ok |-> \A k \in 1 .. Len(trace'[c]) :
                    trace'[c][k].op = "ans" => trace'[c][k].r = SpmdSuccess(0, 0),
     granted |-> \A k \in 1 .. Len(trace'[c]) :
                    trace'[c][k].op = "share_hyp" => trace'[c][k].ok,
     tx |-> host_tx', rx |-> host_rx', mapped |-> spmd_mapped',
     hyp |-> { p \in Pages : owner'[p] = "shared_hyp" }]
\* The history keeps the calls that got as far as the grants: the ones that
\* succeeded and the maps in which a grant failed.
Push(l, e) ==
    IF e.res.a0 # "FFA_SUCCESS" /\ e.granted
    THEN l
    ELSE IF Len(l) >= 3 THEN Append(Tail(l), e) ELSE Append(l, e)
\* Faulty variant: the alignment of tx and rx is not checked.
MapRegCheck_unaligned(tx, rx, npages) ==
    IF npages # (KVM_FFA_MBOX_NR_PAGES * PAGE_SIZE) \div FFA_PAGE_SIZE
    THEN FFA_RET_INVALID_PARAMETERS
    ELSE 0
MapRegCheck(tx, rx, npages) ==
    IF npages # (KVM_FFA_MBOX_NR_PAGES * PAGE_SIZE) \div FFA_PAGE_SIZE
    THEN FFA_RET_INVALID_PARAMETERS
    ELSE IF ~PAGE_ALIGNED(tx) \/ ~PAGE_ALIGNED(rx)
    THEN FFA_RET_INVALID_PARAMETERS
    ELSE 0

\* The call traps: registers are read and checked (lines 166-179).
MapCall(c, inputs) ==
    /\ pc[c] = "idle"
    /\ ncalls < MaxCalls
    /\ ncalls' = ncalls + 1
    /\ \E in \in inputs :
          LET ret == MapRegCheck(in.tx, in.rx, in.n)
          IN /\ regs' = [regs EXCEPT ![c] =
                    [x0 |-> "FFA_FN64_RXTX_MAP", x1 |-> in.tx, x2 |-> in.rx,
                     x3 |-> in.n, x4 |-> 0]]
             /\ res' = [res EXCEPT ![c] = IF ret # 0 THEN ffa_to_smccc_res(ret) ELSE Unset]
             /\ pc' = [pc EXCEPT ![c] = IF ret # 0 THEN "idle" ELSE "map_lock"]
    /\ pre' = [pre EXCEPT ![c] = owner]
    /\ trace' = [trace EXCEPT ![c] = << >>]
    /\ offset' = [offset EXCEPT ![c] = 0]
    /\ UNCHANGED << boot, s2_fail, life, lock, host_tx, host_rx, host_txbuf, ffa_buffers, owner,
                    spmd_mapped, spmd_held >>

\* Faulty variant: the "denied" path returns without releasing the lock.
MapLocked_denied_keeps_lock(c) ==
    /\ pc[c] = "map_lock"
    /\ hyp_spin_lock_free(lock)
    /\ pre' = [pre EXCEPT ![c] = owner]
    /\ IF host_tx # NULL
       THEN /\ res' = [res EXCEPT ![c] = ffa_to_smccc_res(FFA_RET_DENIED)]
            /\ pc' = [pc EXCEPT ![c] = "idle"]
            /\ trace' = [trace EXCEPT ![c] = << EvLock >>]
            /\ lock' = c
       ELSE /\ res' = res
            /\ pc' = [pc EXCEPT ![c] = "map_smc"]
            /\ trace' = [trace EXCEPT ![c] =
                   << EvLock, spmd_map_ffa_buffers(regs[c].x3) >>]
            /\ lock' = c
    /\ UNCHANGED << boot, s2_fail, ncalls, regs, offset, host_tx, host_rx, host_txbuf, ffa_buffers, owner,
                    spmd_mapped, spmd_held >>
    /\ life' = IF host_tx # NULL THEN Push(life, LifeEntry(c, "map")) ELSE life
\* Lock taken; denied when already mapped, else spmd_map_ffa_buffers issues
\* FFA_FN64_RXTX_MAP for the proxy's own pair (lines 181-187, 112-121).
MapLocked(c) ==
    /\ pc[c] = "map_lock"
    /\ hyp_spin_lock_free(lock)
    /\ pre' = [pre EXCEPT ![c] = owner]
    /\ IF host_tx # NULL
       THEN /\ res' = [res EXCEPT ![c] = ffa_to_smccc_res(FFA_RET_DENIED)]
            /\ pc' = [pc EXCEPT ![c] = "idle"]
            /\ trace' = [trace EXCEPT ![c] = << EvLock, EvUnlock >>]
            /\ lock' = 0
       ELSE /\ res' = res
            /\ pc' = [pc EXCEPT ![c] = "map_smc"]
            /\ trace' = [trace EXCEPT ![c] =
                   << EvLock, spmd_map_ffa_buffers(regs[c].x3) >>]
            /\ lock' = c
    /\ UNCHANGED << boot, s2_fail, ncalls, regs, offset, host_tx, host_rx, host_txbuf, ffa_buffers, owner,
                    spmd_mapped, spmd_held >>
    /\ life' = IF host_tx # NULL THEN Push(life, LifeEntry(c, "map")) ELSE life

\* spmd_unmap_ffa_buffers: FFA_RXTX_UNMAP is issued and its result dropped
\* by both callers; ok is whether the SPMD unmapped.
SpmdUnmapped(ok) == IF ok THEN FALSE ELSE spmd_mapped
\* Faulty variant: an FFA_RXTX_UNMAP the SPMD refuses is issued a second time.
EvUnmapSmc_retried(ok) ==
    IF ok
    THEN << EvSmc("FFA_RXTX_UNMAP", HOST_FFA_ID, 0), EvAns(SpmdSuccess(0, 0)) >>
    ELSE << EvSmc("FFA_RXTX_UNMAP", HOST_FFA_ID, 0), EvAns(SpmdError(FFA_RET_DENIED)),
            EvSmc("FFA_RXTX_UNMAP", HOST_FFA_ID, 0), EvAns(SpmdError(FFA_RET_DENIED)) >>
EvUnmapSmc(ok) ==
    << EvSmc("FFA_RXTX_UNMAP", HOST_FFA_ID, 0),
       EvAns(IF ok THEN SpmdSuccess(0, 0) ELSE SpmdError(FFA_RET_DENIED)) >>

\* Faulty variant: when granting rx fails the tx grant is not revoked.
MapSmcRet_tx_kept(c) ==
    /\ pc[c] = "map_smc"
    /\ \/ \E e \in SpmdErrors :
             /\ res' = [res EXCEPT ![c] = ffa_to_smccc_res(e)]
             /\ trace' = [trace EXCEPT ![c] = @ \o << EvAns(SpmdError(e)), EvUnlock >>]
             /\ UNCHANGED << host_tx, host_rx, owner, spmd_mapped >>
       \/ /\ ~spmd_mapped
          /\ \E uok \in BOOLEAN :
             LET tx == regs[c].x1
                 rx == regs[c].x2
                 t == __pkvm_host_share_hyp(owner, hyp_phys_to_pfn(tx))
                 r == __pkvm_host_share_hyp(t.own, hyp_phys_to_pfn(rx))
                 u == __pkvm_host_unshare_hyp(t.own, hyp_phys_to_pfn(tx))
                 ans == << EvAns(SpmdSuccess(0, 0)) >>
                 etx == Ev("share_hyp", "", hyp_phys_to_pfn(tx), 1, t.ret = 0)
                 erx == Ev("share_hyp", "", hyp_phys_to_pfn(rx), 1, r.ret = 0)
                 eun == Ev("unshare_hyp", "", hyp_phys_to_pfn(tx), 1, u.ret = 0)
             IN IF t.ret # 0
                THEN /\ res' = [res EXCEPT ![c] = ffa_to_smccc_res(FFA_RET_INVALID_PARAMETERS)]
                     /\ trace' = [trace EXCEPT ![c] =
                            @ \o ans \o << etx >> \o EvUnmapSmc(uok) \o << EvUnlock >>]
                     /\ spmd_mapped' = ~uok
                     /\ UNCHANGED << host_tx, host_rx, owner >>
                ELSE IF r.ret # 0
                THEN /\ res' = [res EXCEPT ![c] = ffa_to_smccc_res(FFA_RET_INVALID_PARAMETERS)]
                     /\ trace' = [trace EXCEPT ![c] =
                            @ \o ans \o << etx, erx >> \o EvUnmapSmc(uok) \o << EvUnlock >>]
                     /\ spmd_mapped' = ~uok
                     /\ owner' = t.own
                     /\ UNCHANGED << host_tx, host_rx >>
                ELSE /\ uok
                     /\ res' = [res EXCEPT ![c] = ffa_to_smccc_res(0)]
                     /\ trace' = [trace EXCEPT ![c] = @ \o ans \o << etx, erx, EvUnlock >>]
                     /\ spmd_mapped' = TRUE
                     /\ owner' = r.own
                     /\ host_tx' = Ptr(tx)
                     /\ host_rx' = Ptr(rx)
    /\ pc' = [pc EXCEPT ![c] = "idle"]
    /\ lock' = 0
    /\ UNCHANGED << boot, s2_fail, ncalls, regs, offset, host_txbuf, ffa_buffers, spmd_held, pre >>
    /\ life' = Push(life, LifeEntry(c, "map"))

\* The SPMD answers the map; the two buffer pages are shared with the
\* hypervisor, undoing what was done when a step fails (lines 187-217).
MapSmcRet(c) ==
    /\ pc[c] = "map_smc"
    /\ \/ \E e \in SpmdErrors :
             /\ res' = [res EXCEPT ![c] = ffa_to_smccc_res(e)]
             /\ trace' = [trace EXCEPT ![c] = @ \o << EvAns(SpmdError(e)), EvUnlock >>]
             /\ UNCHANGED << host_tx, host_rx, owner, spmd_mapped >>
       \/ /\ ~spmd_mapped
          /\ \E uok \in BOOLEAN :
             LET tx == regs[c].x1
                 rx == regs[c].x2
                 t == __pkvm_host_share_hyp(owner, hyp_phys_to_pfn(tx))
                 r == __pkvm_host_share_hyp(t.own, hyp_phys_to_pfn(rx))
                 u == __pkvm_host_unshare_hyp(t.own, hyp_phys_to_pfn(tx))
                 ans == << EvAns(SpmdSuccess(0, 0)) >>
                 etx == Ev("share_hyp", "", hyp_phys_to_pfn(tx), 1, t.ret = 0)
                 erx == Ev("share_hyp", "", hyp_phys_to_pfn(rx), 1, r.ret = 0)
                 eun == Ev("unshare_hyp", "", hyp_phys_to_pfn(tx), 1, u.ret = 0)
             IN IF t.ret # 0
                THEN /\ res' = [res EXCEPT ![c] = ffa_to_smccc_res(FFA_RET_INVALID_PARAMETERS)]
                     /\ trace' = [trace EXCEPT ![c] =
                            @ \o ans \o << etx >> \o EvUnmapSmc(uok) \o << EvUnlock >>]
                     /\ spmd_mapped' = ~uok
                     /\ UNCHANGED << host_tx, host_rx, owner >>
                ELSE IF r.ret # 0
                THEN /\ res' = [res EXCEPT ![c] = ffa_to_smccc_res(FFA_RET_INVALID_PARAMETERS)]
                     /\ trace' = [trace EXCEPT ![c] =
                            @ \o ans \o << etx, erx, eun >> \o EvUnmapSmc(uok) \o << EvUnlock >>]
                     /\ spmd_mapped' = ~uok
                     /\ owner' = u.own
                     /\ UNCHANGED << host_tx, host_rx >>
                ELSE /\ uok
                     /\ res' = [res EXCEPT ![c] = ffa_to_smccc_res(0)]
                     /\ trace' = [trace EXCEPT ![c] = @ \o ans \o << etx, erx, EvUnlock >>]
                     /\ spmd_mapped' = TRUE
                     /\ owner' = r.own
                     /\ host_tx' = Ptr(tx)
                     /\ host_rx' = Ptr(rx)
    /\ pc' = [pc EXCEPT ![c] = "idle"]
    /\ lock' = 0
    /\ UNCHANGED << boot, s2_fail, ncalls, regs, offset, host_txbuf, ffa_buffers, spmd_held, pre >>
    /\ life' = Push(life, LifeEntry(c, "map"))

(* -------------------------- FFA_RXTX_UNMAP ---------------------------- *)
\* The call traps: the endpoint id is checked (lines 222-228).
UnmapCall(c, inputs) ==
    /\ pc[c] = "idle"
    /\ ncalls < MaxCalls
    /\ ncalls' = ncalls + 1
    /\ \E id \in inputs :
          /\ regs' = [regs EXCEPT ![c] =
                 [x0 |-> "FFA_RXTX_UNMAP", x1 |-> id, x2 |-> 0, x3 |-> 0, x4 |-> 0]]
          /\ res' = [res EXCEPT ![c] =
                 IF id # HOST_FFA_ID THEN ffa_to_smccc_res(FFA_RET_INVALID_PARAMETERS)
                 ELSE Unset]
          /\ pc' = [pc EXCEPT ![c] = IF id # HOST_FFA_ID THEN "idle" ELSE "unmap_lock"]
    /\ pre' = [pre EXCEPT ![c] = owner]
    /\ trace' = [trace EXCEPT ![c] = << >>]
    /\ offset' = [offset EXCEPT ![c] = 0]
    /\ UNCHANGED << boot, s2_fail, life, lock, host_tx, host_rx, host_txbuf, ffa_buffers, owner,
                    spmd_mapped, spmd_held >>

\* Faulty variant: the recorded rx buffer is not cleared.
UnmapLocked_rx_kept(c) ==
    /\ pc[c] = "unmap_lock"
    /\ hyp_spin_lock_free(lock)
    /\ pre' = [pre EXCEPT ![c] = owner]
    /\ IF host_tx = NULL
       THEN /\ res' = [res EXCEPT ![c] = ffa_to_smccc_res(FFA_RET_INVALID_PARAMETERS)]
            /\ trace' = [trace EXCEPT ![c] = << EvLock, EvUnlock >>]
            /\ UNCHANGED << host_tx, host_rx, owner, spmd_mapped >>
       ELSE \E uok \in BOOLEAN :
            LET txp == hyp_phys_to_pfn(host_tx[1])
                rxp == hyp_phys_to_pfn(host_rx[1])
                t == __pkvm_host_unshare_hyp(owner, txp)
                r == __pkvm_host_unshare_hyp(t.own, rxp)
            IN /\ res' = [res EXCEPT ![c] = ffa_to_smccc_res(0)]
               /\ owner' = r.own
               /\ host_tx' = NULL
               /\ host_rx' = host_rx
               /\ spmd_mapped' = SpmdUnmapped(uok)
               /\ trace' = [trace EXCEPT ![c] =
                      << EvLock, Ev("unshare_hyp", "", txp, 1, t.ret = 0) >>
                      \o (IF t.ret # 0 THEN << EvWarn >> ELSE << >>)
                      \o << Ev("unshare_hyp", "", rxp, 1, r.ret = 0) >>
                      \o (IF r.ret # 0 THEN << EvWarn >> ELSE << >>)
                      \o EvUnmapSmc(uok) \o << EvUnlock >>]
    /\ pc' = [pc EXCEPT ![c] = "idle"]
    /\ lock' = 0
    /\ UNCHANGED << boot, s2_fail, ncalls, regs, offset, host_txbuf, ffa_buffers, spmd_held >>
    /\ life' = Push(life, LifeEntry(c, "unmap"))

\* Faulty variant: the SPMD's refusal to unmap is returned to the host.
UnmapLocked_reports_spmd(c) ==
    /\ pc[c] = "unmap_lock"
    /\ hyp_spin_lock_free(lock)
    /\ pre' = [pre EXCEPT ![c] = owner]
    /\ IF host_tx = NULL
       THEN /\ res' = [res EXCEPT ![c] = ffa_to_smccc_res(FFA_RET_INVALID_PARAMETERS)]
            /\ trace' = [trace EXCEPT ![c] = << EvLock, EvUnlock >>]
            /\ UNCHANGED << host_tx, host_rx, owner, spmd_mapped >>
       ELSE \E uok \in BOOLEAN :
            LET txp == hyp_phys_to_pfn(host_tx[1])
                rxp == hyp_phys_to_pfn(host_rx[1])
                t == __pkvm_host_unshare_hyp(owner, txp)
                r == __pkvm_host_unshare_hyp(t.own, rxp)
            IN /\ res' = [res EXCEPT ![c] =
                      ffa_to_smccc_res(IF uok THEN 0 ELSE FFA_RET_DENIED)]
               /\ owner' = r.own
               /\ host_tx' = NULL
               /\ host_rx' = NULL
               /\ spmd_mapped' = SpmdUnmapped(uok)
               /\ trace' = [trace EXCEPT ![c] =
                      << EvLock, Ev("unshare_hyp", "", txp, 1, t.ret = 0) >>
                      \o (IF t.ret # 0 THEN << EvWarn >> ELSE << >>)
                      \o << Ev("unshare_hyp", "", rxp, 1, r.ret = 0) >>
                      \o (IF r.ret # 0 THEN << EvWarn >> ELSE << >>)
                      \o EvUnmapSmc(uok) \o << EvUnlock >>]
    /\ pc' = [pc EXCEPT ![c] = "idle"]
    /\ lock' = 0
    /\ UNCHANGED << boot, s2_fail, ncalls, regs, offset, host_txbuf, ffa_buffers, spmd_held >>
    /\ life' = Push(life, LifeEntry(c, "unmap"))

\* Lock taken; both pages unshared from the hypervisor, the mapping
\* cleared, the SPMD asked to unmap, unlock (lines 230-247).
UnmapLocked(c) ==
    /\ pc[c] = "unmap_lock"
    /\ hyp_spin_lock_free(lock)
    /\ pre' = [pre EXCEPT ![c] = owner]
    /\ IF host_tx = NULL
       THEN /\ res' = [res EXCEPT ![c] = ffa_to_smccc_res(FFA_RET_INVALID_PARAMETERS)]
            /\ trace' = [trace EXCEPT ![c] = << EvLock, EvUnlock >>]
            /\ UNCHANGED << host_tx, host_rx, owner, spmd_mapped >>
       ELSE \E uok \in BOOLEAN :
            LET txp == hyp_phys_to_pfn(host_tx[1])
                rxp == hyp_phys_to_pfn(host_rx[1])
                t == __pkvm_host_unshare_hyp(owner, txp)
                r == __pkvm_host_unshare_hyp(t.own, rxp)
            IN /\ res' = [res EXCEPT ![c] = ffa_to_smccc_res(0)]
               /\ owner' = r.own
               /\ host_tx' = NULL
               /\ host_rx' = NULL
               /\ spmd_mapped' = SpmdUnmapped(uok)
               /\ trace' = [trace EXCEPT ![c] =
                      << EvLock, Ev("unshare_hyp", "", txp, 1, t.ret = 0) >>
                      \o (IF t.ret # 0 THEN << EvWarn >> ELSE << >>)
                      \o << Ev("unshare_hyp", "", rxp, 1, r.ret = 0) >>
                      \o (IF r.ret # 0 THEN << EvWarn >> ELSE << >>)
                      \o EvUnmapSmc(uok) \o << EvUnlock >>]
    /\ pc' = [pc EXCEPT ![c] = "idle"]
    /\ lock' = 0
    /\ UNCHANGED << boot, s2_fail, ncalls, regs, offset, host_txbuf, ffa_buffers, spmd_held >>
    /\ life' = Push(life, LifeEntry(c, "unmap"))

(* --------------------------- FFA_MEM_RECLAIM -------------------------- *)
\* The call traps (lines 394-403); nothing is checked before the lock.
ReclaimCall(c, inputs) ==
    /\ pc[c] = "idle"
    /\ ncalls < MaxCalls
    /\ ncalls' = ncalls + 1
    /\ \E in \in inputs :
          regs' = [regs EXCEPT ![c] =
              [x0 |-> "FFA_MEM_RECLAIM", x1 |-> in.h, x2 |-> 0, x3 |-> in.fl, x4 |-> 0]]
    /\ res' = [res EXCEPT ![c] = Unset]
    /\ pc' = [pc EXCEPT ![c] = "reclaim_lock"]
    /\ pre' = [pre EXCEPT ![c] = owner]
    /\ trace' = [trace EXCEPT ![c] = << >>]
    /\ offset' = [offset EXCEPT ![c] = 0]
    /\ UNCHANGED << boot, s2_fail, life, lock, host_tx, host_rx, host_txbuf, ffa_buffers, owner,
                    spmd_mapped, spmd_held >>

\* *buf = (struct ffa_mem_region) { .sender_id, .handle }: the 32 bytes of
\* the structure are written, handle_lo at byte 8 and handle_hi at byte 12.
RetrieveReq(buf, handle_lo, handle_hi) ==
    [i \in 1 .. BufWords |->
        IF 4 * i > SZ_MEM_REGION THEN buf[i]
        ELSE CASE i = 1 -> HOST_FFA_ID
               [] i = 3 -> handle_lo
               [] i = 4 -> handle_hi
               [] OTHER -> 0]

\* Faulty variant: the retrieve request is written and issued before the
\* lock is taken.
ReclaimLocked_before_lock(c) ==
    /\ pc[c] = "reclaim_lock"
    /\ pre' = [pre EXCEPT ![c] = owner]
    /\ ffa_buffers' = [ffa_buffers EXCEPT !.tx = RetrieveReq(@, regs[c].x1, regs[c].x2)]
    /\ trace' = [trace EXCEPT ![c] =
           << EvSmc("FFA_FN64_MEM_RETRIEVE_REQ", SZ_MEM_REGION, SZ_MEM_REGION), EvLock >>]
    /\ pc' = [pc EXCEPT ![c] = "reclaim_retrieve"]
    /\ lock' = c
    /\ UNCHANGED << boot, s2_fail, life, ncalls, regs, res, offset, host_tx, host_rx, host_txbuf, owner,
                    spmd_mapped, spmd_held >>
\* Lock taken; the retrieve request is written to the proxy's tx buffer and
\* FFA_FN64_MEM_RETRIEVE_REQ is issued (lines 405-413).
ReclaimLocked(c) ==
    /\ pc[c] = "reclaim_lock"
    /\ hyp_spin_lock_free(lock)
    /\ pre' = [pre EXCEPT ![c] = owner]
    /\ ffa_buffers' = [ffa_buffers EXCEPT !.tx = RetrieveReq(@, regs[c].x1, regs[c].x2)]
    /\ trace' = [trace EXCEPT ![c] =
           << EvLock, EvSmc("FFA_FN64_MEM_RETRIEVE_REQ", SZ_MEM_REGION, SZ_MEM_REGION) >>]
    /\ pc' = [pc EXCEPT ![c] = "reclaim_retrieve"]
    /\ lock' = c
    /\ UNCHANGED << boot, s2_fail, life, ncalls, regs, res, offset, host_tx, host_rx, host_txbuf, owner,
                    spmd_mapped, spmd_held >>

\* What the SPMD may answer to the retrieve request for a transfer it holds:
\* the descriptor whole, a first fragment of it, or one with an offset
\* beyond the buffer.
RetrieveKinds == { "whole", "fragment", "bad_offset" }
DescBytes(ranges) == OffHdr + SZ_COMPOSITE_MEM_REGION + SZ_ADDR_RANGE * Len(ranges)
RetrieveResp(kind, ranges) ==
    [a0 |-> "FFA_MEM_RETRIEVE_RESP",
     a1 |-> DescBytes(ranges),
     a2 |-> IF kind = "fragment" THEN OffHdr ELSE DescBytes(ranges),
     a3 |-> 0]
RetrieveDesc(kind, ranges) ==
    MkDesc(HOST_FFA_ID, 1,
           IF kind = "bad_offset" THEN MBOX_BYTES + SZ_ADDR_RANGE ELSE OffHdr,
           Len(ranges), ranges)

\* Faulty variant: a fragmented retrieve response is not refused.
ReclaimAfterRetrieve_fragment_taken(c, ans, rx) ==
    LET off == composite_off(rx)
        out(r, evs) ==
            /\ res' = [res EXCEPT ![c] = r]
            /\ pc' = [pc EXCEPT ![c] = "idle"]
            /\ lock' = 0
            /\ trace' = [trace EXCEPT ![c] = @ \o << EvAns(ans) >> \o evs \o << EvUnlock >>]
            /\ UNCHANGED offset
    IN /\ ffa_buffers' = [ffa_buffers EXCEPT !.rx = rx]
       /\ IF ans.a0 # "FFA_MEM_RETRIEVE_RESP" THEN out(ans, << >>)
          ELSE IF off > KVM_FFA_MBOX_NR_PAGES * PAGE_SIZE
          THEN out(ffa_to_smccc_res(FFA_RET_ABORTED), << EvWarn >>)
          ELSE /\ res' = [res EXCEPT ![c] = ans]
               /\ pc' = [pc EXCEPT ![c] = "reclaim_smc"]
               /\ lock' = lock
               /\ offset' = [offset EXCEPT ![c] = off]
               /\ trace' = [trace EXCEPT ![c] =
                      @ \o << EvAns(ans), EvSmc("FFA_MEM_RECLAIM", regs[c].x1, regs[c].x2) >>]
\* Faulty variant: an answer other than a retrieve response is reported as
\* "aborted".
ReclaimAfterRetrieve_own_error(c, ans, rx) ==
    LET off == composite_off(rx)
        out(r, evs) ==
            /\ res' = [res EXCEPT ![c] = r]
            /\ pc' = [pc EXCEPT ![c] = "idle"]
            /\ lock' = 0
            /\ trace' = [trace EXCEPT ![c] = @ \o << EvAns(ans) >> \o evs \o << EvUnlock >>]
            /\ UNCHANGED offset
    IN /\ ffa_buffers' = [ffa_buffers EXCEPT !.rx = rx]
       /\ IF ans.a0 # "FFA_MEM_RETRIEVE_RESP"
          THEN out(ffa_to_smccc_res(FFA_RET_ABORTED), << >>)
          ELSE IF ans.a1 # ans.a2 THEN out(ffa_to_smccc_res(FFA_RET_ABORTED), << >>)
          ELSE IF off > KVM_FFA_MBOX_NR_PAGES * PAGE_SIZE
          THEN out(ffa_to_smccc_res(FFA_RET_ABORTED), << EvWarn >>)
          ELSE /\ res' = [res EXCEPT ![c] = ans]
               /\ pc' = [pc EXCEPT ![c] = "reclaim_smc"]
               /\ lock' = lock
               /\ offset' = [offset EXCEPT ![c] = off]
               /\ trace' = [trace EXCEPT ![c] =
                      @ \o << EvAns(ans), EvSmc("FFA_MEM_RECLAIM", regs[c].x1, regs[c].x2) >>]

\* The rest of do_ffa_mem_reclaim once the SPMD answered the retrieve
\* request with ans, having left rx in the proxy's rx buffer: pass-through,
\* abort, or FFA_MEM_RECLAIM issued (lines 414-436).
ReclaimAfterRetrieve(c, ans, rx) ==
    LET off == composite_off(rx)
        out(r, evs) ==
            /\ res' = [res EXCEPT ![c] = r]
            /\ pc' = [pc EXCEPT ![c] = "idle"]
            /\ lock' = 0
            /\ trace' = [trace EXCEPT ![c] = @ \o << EvAns(ans) >> \o evs \o << EvUnlock >>]
            /\ UNCHANGED offset
    IN /\ ffa_buffers' = [ffa_buffers EXCEPT !.rx = rx]
       /\ IF ans.a0 # "FFA_MEM_RETRIEVE_RESP" THEN out(ans, << >>)
          ELSE IF ans.a1 # ans.a2 THEN out(ffa_to_smccc_res(FFA_RET_ABORTED), << >>)
          ELSE IF off > KVM_FFA_MBOX_NR_PAGES * PAGE_SIZE
          THEN out(ffa_to_smccc_res(FFA_RET_ABORTED), << EvWarn >>)
          ELSE /\ res' = [res EXCEPT ![c] = ans]
               /\ pc' = [pc EXCEPT ![c] = "reclaim_smc"]
               /\ lock' = lock
               /\ offset' = [offset EXCEPT ![c] = off]
               /\ trace' = [trace EXCEPT ![c] =
                      @ \o << EvAns(ans), EvSmc("FFA_MEM_RECLAIM", regs[c].x1, regs[c].x2) >>]

ReclaimRetrieveRet(c) ==
    /\ pc[c] = "reclaim_retrieve"
    /\ \/ \E e \in SpmdErrors : ReclaimAfterRetrieve(c, SpmdError(e), ffa_buffers.rx)
       \/ \E k \in RetrieveKinds :
             LET h == W(ffa_buffers.tx, 2)
             IN /\ spmd_mapped
                /\ W(ffa_buffers.tx, 3) = 0
                /\ h \in Handles
                /\ spmd_held[h].live
                /\ ReclaimAfterRetrieve(c, RetrieveResp(k, spmd_held[h].ranges),
                                        RetrieveDesc(k, spmd_held[h].ranges))
    /\ UNCHANGED << boot, s2_fail, life, ncalls, regs, host_tx, host_rx, host_txbuf, owner, spmd_mapped,
                    spmd_held, pre >>

\* The SPMD answers the retrieve request with a descriptor whose composite
\* offset is the size of the buffer, which the check of line 430 lets through.
EdgeDesc(ranges) == MkDesc(HOST_FFA_ID, 1, MBOX_BYTES, Len(ranges), ranges)
ReclaimRetrieveRetEdge(c) ==
    /\ pc[c] = "reclaim_retrieve"
    /\ LET h == W(ffa_buffers.tx, 2)
       IN /\ spmd_mapped
          /\ W(ffa_buffers.tx, 3) = 0
          /\ h \in Handles
          /\ spmd_held[h].live
          /\ ReclaimAfterRetrieve(c, RetrieveResp("whole", spmd_held[h].ranges),
                                  EdgeDesc(spmd_held[h].ranges))
    /\ UNCHANGED << boot, s2_fail, life, ncalls, regs, host_tx, host_rx, host_txbuf, owner, spmd_mapped,
                    spmd_held, pre >>

\* reg = (void *)buf + offset, read by ffa_host_unshare_ranges: the composite
\* region as [buf, off]. When reg lies past the end of the rx buffer the
\* reads are of whatever memory follows it, any of these regions.
OobRangeLists == { << >>, << Rg(0, 1) >>, << Rg(4, 1) >> }
OobBuf(ranges) == Pad(<< 0, Len(ranges), 0, 0 >> \o RangeWords(ranges))
RegionAt(buf, off) ==
    IF off + SZ_COMPOSITE_MEM_REGION <= MBOX_BYTES
    THEN { [buf |-> buf, off |-> off] }
    ELSE { [buf |-> OobBuf(rs), off |-> 0] : rs \in OobRangeLists }

\* Faulty variant: the ranges are unshared whatever the SPMD answered.
ReclaimSmcRet_unshare_always(c) ==
    /\ pc[c] = "reclaim_smc"
    /\ \/ \E e \in SpmdErrors :
             LET un == ffa_host_unshare_ranges(owner, ffa_buffers.rx, offset[c],
                                               addr_range_cnt(ffa_buffers.rx, offset[c]))
             IN /\ res' = [res EXCEPT ![c] = SpmdError(e)]
                /\ owner' = un.own
                /\ trace' = [trace EXCEPT ![c] =
                       @ \o << EvAns(SpmdError(e)) >> \o un.ev \o << EvUnlock >>]
                /\ UNCHANGED spmd_held
       \/ \E reg \in RegionAt(ffa_buffers.rx, offset[c]) :
          LET h == regs[c].x1
              un == ffa_host_unshare_ranges(owner, reg.buf, reg.off,
                                            addr_range_cnt(reg.buf, reg.off))
          IN /\ regs[c].x2 = 0
             /\ h \in Handles
             /\ spmd_held[h].live
             /\ spmd_held' = [spmd_held EXCEPT ![h] = NoXfer]
             /\ res' = [res EXCEPT ![c] = SpmdSuccess(0, 0)]
             /\ owner' = un.own
             /\ trace' = [trace EXCEPT ![c] =
                    @ \o << EvAns(SpmdSuccess(0, 0)) >> \o un.ev
                    \o (IF un.ret # 0 THEN << EvWarn >> ELSE << >>)
                    \o << EvUnlock >>]
    /\ pc' = [pc EXCEPT ![c] = "idle"]
    /\ lock' = 0
    /\ UNCHANGED << boot, s2_fail, life, ncalls, regs, offset, host_tx, host_rx, host_txbuf, ffa_buffers,
                    spmd_mapped, pre >>

\* Faulty variant: a failed unshare replaces the SPMD's answer by its error.
ReclaimSmcRet_unshare_error(c) ==
    /\ pc[c] = "reclaim_smc"
    /\ \/ \E e \in SpmdErrors :
             /\ res' = [res EXCEPT ![c] = SpmdError(e)]
             /\ trace' = [trace EXCEPT ![c] = @ \o << EvAns(SpmdError(e)), EvUnlock >>]
             /\ UNCHANGED << owner, spmd_held >>
       \/ \E reg \in RegionAt(ffa_buffers.rx, offset[c]) :
          LET h == regs[c].x1
              un == ffa_host_unshare_ranges(owner, reg.buf, reg.off,
                                            addr_range_cnt(reg.buf, reg.off))
          IN /\ regs[c].x2 = 0
             /\ h \in Handles
             /\ spmd_held[h].live
             /\ spmd_held' = [spmd_held EXCEPT ![h] = NoXfer]
             /\ res' = [res EXCEPT ![c] = IF un.ret # 0 THEN ffa_to_smccc_res(un.ret)
                                           ELSE SpmdSuccess(0, 0)]
             /\ owner' = un.own
             /\ trace' = [trace EXCEPT ![c] =
                    @ \o << EvAns(SpmdSuccess(0, 0)) >> \o un.ev
                    \o (IF un.ret # 0 THEN << EvWarn >> ELSE << >>)
                    \o << EvUnlock >>]
    /\ pc' = [pc EXCEPT ![c] = "idle"]
    /\ lock' = 0
    /\ UNCHANGED << boot, s2_fail, life, ncalls, regs, offset, host_tx, host_rx, host_txbuf, ffa_buffers,
                    spmd_mapped, pre >>

\* The SPMD answers the reclaim; on FFA_SUCCESS the ranges of the retrieved
\* descriptor are unshared; unlock and return (lines 436-448).
ReclaimSmcRet(c) ==
    /\ pc[c] = "reclaim_smc"
    /\ \/ \E e \in SpmdErrors :
             /\ res' = [res EXCEPT ![c] = SpmdError(e)]
             /\ trace' = [trace EXCEPT ![c] = @ \o << EvAns(SpmdError(e)), EvUnlock >>]
             /\ UNCHANGED << owner, spmd_held >>
       \/ \E reg \in RegionAt(ffa_buffers.rx, offset[c]) :
          LET h == regs[c].x1
              un == ffa_host_unshare_ranges(owner, reg.buf, reg.off,
                                            addr_range_cnt(reg.buf, reg.off))
          IN /\ regs[c].x2 = 0
             /\ h \in Handles
             /\ spmd_held[h].live
             /\ spmd_held' = [spmd_held EXCEPT ![h] = NoXfer]
             /\ res' = [res EXCEPT ![c] = SpmdSuccess(0, 0)]
             /\ owner' = un.own
             /\ trace' = [trace EXCEPT ![c] =
                    @ \o << EvAns(SpmdSuccess(0, 0)) >> \o un.ev
                    \o (IF un.ret # 0 THEN << EvWarn >> ELSE << >>)
                    \o << EvUnlock >>]
    /\ pc' = [pc EXCEPT ![c] = "idle"]
    /\ lock' = 0
    /\ UNCHANGED << boot, s2_fail, life, ncalls, regs, offset, host_tx, host_rx, host_txbuf, ffa_buffers,
                    spmd_mapped, pre >>

(* ---------------------------- dispatcher ------------------------------ *)
\* The SMCCC fields of a function id: fast call or not, 64-bit calling
\* convention or not, owning entity, function number.
Smc(fast, w64, owning, num) == [fast |-> fast, w64 |-> w64, owner |-> owning, num |-> num]
\* The function ids the host puts in x0, by name, with their fields: the
\* FF-A ids, and ids of other services (a PSCI call, an architecture call, a
\* SiP call and a yielding call whose numbers lie in the FF-A range, and a
\* standard call above it).
SmcFields ==
    [FFA_VERSION |-> Smc(TRUE, FALSE, 4, 99), FFA_FEATURES |-> Smc(TRUE, FALSE, 4, 100),
     FFA_RX_RELEASE |-> Smc(TRUE, FALSE, 4, 101),
     FFA_RXTX_MAP |-> Smc(TRUE, FALSE, 4, 102), FFA_FN64_RXTX_MAP |-> Smc(TRUE, TRUE, 4, 102),
     FFA_RXTX_UNMAP |-> Smc(TRUE, FALSE, 4, 103), FFA_ID_GET |-> Smc(TRUE, FALSE, 4, 105),
     FFA_MSG_POLL |-> Smc(TRUE, FALSE, 4, 106), FFA_MSG_WAIT |-> Smc(TRUE, FALSE, 4, 107),
     FFA_MSG_SEND |-> Smc(TRUE, FALSE, 4, 110),
     FFA_MSG_SEND_DIRECT_REQ |-> Smc(TRUE, FALSE, 4, 111),
     FFA_FN64_MSG_SEND_DIRECT_REQ |-> Smc(TRUE, TRUE, 4, 111),
     FFA_MSG_SEND_DIRECT_RESP |-> Smc(TRUE, FALSE, 4, 112),
     FFA_MEM_DONATE |-> Smc(TRUE, FALSE, 4, 113), FFA_FN64_MEM_DONATE |-> Smc(TRUE, TRUE, 4, 113),
     FFA_MEM_LEND |-> Smc(TRUE, FALSE, 4, 114), FFA_FN64_MEM_LEND |-> Smc(TRUE, TRUE, 4, 114),
     FFA_MEM_SHARE |-> Smc(TRUE, FALSE, 4, 115), FFA_FN64_MEM_SHARE |-> Smc(TRUE, TRUE, 4, 115),
     FFA_MEM_RETRIEVE_REQ |-> Smc(TRUE, FALSE, 4, 116),
     FFA_FN64_MEM_RETRIEVE_REQ |-> Smc(TRUE, TRUE, 4, 116),
     FFA_MEM_RETRIEVE_RESP |-> Smc(TRUE, FALSE, 4, 117),
     FFA_MEM_RELINQUISH |-> Smc(TRUE, FALSE, 4, 118), FFA_MEM_RECLAIM |-> Smc(TRUE, FALSE, 4, 119),
     FFA_MEM_OP_PAUSE |-> Smc(TRUE, FALSE, 4, 120), FFA_MEM_OP_RESUME |-> Smc(TRUE, FALSE, 4, 121),
     FFA_MEM_FRAG_RX |-> Smc(TRUE, FALSE, 4, 122), FFA_MEM_FRAG_TX |-> Smc(TRUE, FALSE, 4, 123),
     PSCI_VERSION |-> Smc(TRUE, FALSE, 4, 0), ARM_SMCCC_VERSION |-> Smc(TRUE, FALSE, 0, 0),
     SIP_CALL |-> Smc(TRUE, FALSE, 2, 100), STD_YIELDING_CALL |-> Smc(FALSE, FALSE, 4, 100),
     STD_CALL_ABOVE |-> Smc(TRUE, FALSE, 4, 128)]
FuncIds == DOMAIN SmcFields
ARM_SMCCC_OWNER_STANDARD == 4
FFA_MIN_FUNC_NUM == 96
FFA_MAX_FUNC_NUM == 127
\* Bits 30..0 of a function id as a register holds it: calling convention
\* in bit 30, owning entity in bits 29..24, function number in bits 15..0.
CallVal(func_id) ==
    (IF SmcFields[func_id].w64 THEN 2 ^ 30 ELSE 0)
    + SmcFields[func_id].owner * (2 ^ 24) + SmcFields[func_id].num
\* The fast call a register value names.
FuncIdOf(w) == CHOOSE f \in FuncIds : SmcFields[f].fast /\ CallVal(f) = w

is_ffa_call(func_id) ==
    /\ SmcFields[func_id].fast
    /\ SmcFields[func_id].owner = ARM_SMCCC_OWNER_STANDARD
    /\ SmcFields[func_id].num >= FFA_MIN_FUNC_NUM
    /\ SmcFields[func_id].num <= FFA_MAX_FUNC_NUM

\* Faulty variant: the 32-bit donate is left out of the list.
ffa_call_unsupported_donate32(func_id) ==
    func_id \in { "FFA_FN64_MEM_RETRIEVE_REQ", "FFA_MEM_RETRIEVE_RESP", "FFA_MEM_RELINQUISH",
                  "FFA_MEM_OP_PAUSE", "FFA_MEM_OP_RESUME", "FFA_MEM_FRAG_RX",
                  "FFA_FN64_MEM_DONATE",
                  "FFA_MSG_SEND", "FFA_MSG_POLL", "FFA_MSG_WAIT",
                  "FFA_MSG_SEND_DIRECT_REQ", "FFA_MSG_SEND_DIRECT_RESP", "FFA_RXTX_MAP",
                  "FFA_MEM_RETRIEVE_REQ" }
ffa_call_unsupported(func_id) ==
    func_id \in { "FFA_FN64_MEM_RETRIEVE_REQ", "FFA_MEM_RETRIEVE_RESP", "FFA_MEM_RELINQUISH",
                  "FFA_MEM_OP_PAUSE", "FFA_MEM_OP_RESUME", "FFA_MEM_FRAG_RX",
                  "FFA_FN64_MEM_DONATE",
                  "FFA_MSG_SEND", "FFA_MSG_POLL", "FFA_MSG_WAIT",
                  "FFA_MSG_SEND_DIRECT_REQ", "FFA_MSG_SEND_DIRECT_RESP", "FFA_RXTX_MAP",
                  "FFA_MEM_DONATE", "FFA_MEM_RETRIEVE_REQ" }

\* What a handler that takes no lock leaves: whether it handled the call,
\* and the result it set when it did.
Handled(r) == [handled |-> TRUE, res |-> r]
NotHandled == [handled |-> FALSE, res |-> Unset]

\* Faulty variant: only the 64-bit share and lend are advertised.
do_ffa_features_fn64_only(id) ==
    IF ffa_call_unsupported(id)
    THEN Handled(ffa_to_smccc_res_prop(FFA_RET_NOT_SUPPORTED, 0))
    ELSE IF id \in { "FFA_FN64_MEM_SHARE", "FFA_FN64_MEM_LEND" }
    THEN Handled(ffa_to_smccc_res_prop(FFA_RET_SUCCESS, 0))
    ELSE NotHandled
do_ffa_features(id) ==
    IF ffa_call_unsupported(id)
    THEN Handled(ffa_to_smccc_res_prop(FFA_RET_NOT_SUPPORTED, 0))
    ELSE IF id \in { "FFA_MEM_SHARE", "FFA_FN64_MEM_SHARE", "FFA_MEM_LEND", "FFA_FN64_MEM_LEND" }
    THEN Handled(ffa_to_smccc_res_prop(FFA_RET_SUCCESS, 0))
    ELSE NotHandled

\* The function ids kvm_host_ffa_handler hands to the handlers above.
LockingFuncs ==
    { "FFA_FN64_RXTX_MAP", "FFA_RXTX_UNMAP", "FFA_MEM_SHARE", "FFA_FN64_MEM_SHARE",
      "FFA_MEM_RECLAIM", "FFA_MEM_LEND", "FFA_FN64_MEM_LEND" }
\* kvm_host_ffa_handler for every other function id: FFA_MEM_FRAG_TX leaves
\* the switch by its break and is treated like the ids the switch does not
\* name.
\* Faulty variant: an FF-A id the switch and the list do not name is answered
\* "not supported" instead of being left to the default path.
kvm_host_ffa_handler_swallow(func_id, x1) ==
    IF ~is_ffa_call(func_id) THEN NotHandled
    ELSE IF func_id = "FFA_FEATURES" THEN do_ffa_features(FuncIdOf(x1))
    ELSE Handled(ffa_to_smccc_error(FFA_RET_NOT_SUPPORTED))
kvm_host_ffa_handler(func_id, x1) ==
    IF ~is_ffa_call(func_id) THEN NotHandled
    ELSE IF func_id = "FFA_FEATURES" THEN do_ffa_features(FuncIdOf(x1))
    ELSE IF ~ffa_call_unsupported(func_id) THEN NotHandled
    ELSE Handled(ffa_to_smccc_error(FFA_RET_NOT_SUPPORTED))

\* The calls the host issues besides map, unmap, share, lend and reclaim:
\* every other function id, and a feature query for every FF-A id.
OtherInputs ==
    { [f |-> f, x1 |-> 0] : f \in FuncIds \ (LockingFuncs \cup { "FFA_FEATURES" }) }
    \cup { [f |-> "FFA_FEATURES", x1 |-> CallVal(id)] : id \in { g \in FuncIds : is_ffa_call(g) } }
\* A few of them: a fragment transmit, a feature query, a donation.
ConcOtherInputs ==
    { [f |-> "FFA_MEM_FRAG_TX", x1 |-> 0],
      [f |-> "FFA_FEATURES", x1 |-> CallVal("FFA_MEM_LEND")],
      [f |-> "FFA_FN64_MEM_DONATE", x1 |-> 0] }
\* The call traps and returns at once: handled with a result, or left to
\* the default path with the registers as they were (lines 507-549).
OtherCall(c, inputs) ==
    /\ pc[c] = "idle"
    /\ ncalls < MaxCalls
    /\ ncalls' = ncalls + 1
    /\ \E in \in inputs :
          LET h == kvm_host_ffa_handler(in.f, in.x1)
          IN /\ in.f \notin LockingFuncs
             /\ regs' = [regs EXCEPT ![c] =
                    [x0 |-> in.f, x1 |-> in.x1, x2 |-> 0, x3 |-> 0, x4 |-> 0]]
             /\ res' = [res EXCEPT ![c] = h.res]
             /\ trace' = [trace EXCEPT ![c] =
                    IF h.handled THEN << >> ELSE << Ev("pass", in.f, 0, 0, TRUE) >>]
    /\ pre' = [pre EXCEPT ![c] = owner]
    /\ offset' = [offset EXCEPT ![c] = 0]
    /\ UNCHANGED << boot, s2_fail, life, pc, lock, host_tx, host_rx, host_txbuf, ffa_buffers, owner,
                    spmd_mapped, spmd_held >>

(* --------------------------- specification ---------------------------- *)
\* What a CPU does after its call trapped and passed the register checks.
Run(c) ==
    \/ XferLocked(c) \/ XferSmcRet(c)
    \/ MapLocked(c) \/ MapSmcRet(c)
    \/ UnmapLocked(c)
    \/ ReclaimLocked(c) \/ ReclaimRetrieveRet(c) \/ ReclaimSmcRet(c)

\* One host CPU issuing calls, the host free to rewrite its tx buffer
\* during them.
Next ==
    \/ XferCall(1, XferInputs) \/ MapCall(1, MapInputs)
    \/ UnmapCall(1, UnmapIds) \/ ReclaimCall(1, ReclaimInputs)
    \/ OtherCall(1, ConcOtherInputs)
    \/ Run(1)
    \/ HostWrite
Spec == Init /\ [][Next]_vars

\* One host CPU issuing every function id, among a few calls of the
\* handlers that take the lock.
NextDispatch ==
    \/ OtherCall(1, OtherInputs)
    \/ XferCall(1, ConcXferInputs) \/ MapCall(1, ConcMapInputs)
    \/ UnmapCall(1, ConcUnmapIds) \/ ReclaimCall(1, ConcReclaimInputs)
    \/ Run(1)
    \/ HostWrite
SpecDispatch == Init /\ [][NextDispatch]_vars

\* Every host CPU issuing calls concurrently.
NextConc ==
    \/ \E c \in Cores :
          \/ XferCall(c, ConcXferInputs) \/ MapCall(c, ConcMapInputs)
          \/ UnmapCall(c, ConcUnmapIds) \/ ReclaimCall(c, ConcReclaimInputs)
          \/ OtherCall(c, ConcOtherInputs)
          \/ Run(c)
    \/ HostWrite
SpecConc == Init /\ [][NextConc]_vars

\* The share call of the specification with fairness: its range can be
\* shared the first time and not while the SPMD holds it.
LiveXferInputs ==
    { XI("FFA_FN64_MEM_SHARE", XA(80, 80, 0, 0),
         MkDesc(HOST_FFA_ID, 1, OffHdr, 1, << Rg(0, 1) >>)) }
\* Every host CPU issuing calls concurrently, where a call that has trapped
\* goes on: hyp_spin_lock is a fair lock, so a CPU that waits for it gets it
\* once it has been free often enough, and the SPMD answers every SMC.
NextLive ==
    \/ \E c \in Cores :
          \/ XferCall(c, LiveXferInputs) \/ MapCall(c, ConcMapInputs)
          \/ UnmapCall(c, ConcUnmapIds) \/ ReclaimCall(c, ConcReclaimInputs)
          \/ OtherCall(c, ConcOtherInputs)
          \/ Run(c)
    \/ HostWrite
SpecLive == Init /\ [][NextLive]_vars /\ \A c \in Cores : SF_vars(Run(c))

(* ------------------ the engine's unshare on its own ------------------- *)
\* The range lists the unshare is given: one, two and three ranges, a range
\* listed twice, a page count that wraps, a guest page, a range that runs
\* past the end of memory.
EngineRangeLists ==
    { << Rg(0, 1) >>, << Rg(0, 1), Rg(4, 1) >>, << Rg(0, 1), Rg(2, 2), Rg(4, 1) >>,
      << Rg(2, 1), Rg(3, 1), Rg(0, 1) >>, << Rg(0, 1), Rg(0, 1) >>,
      << Rg(2, 1), Rg(0, WrapCount) >>, << Rg(3, 1), Rg(GuestPage, 1) >>,
      << Rg(3, 1), Rg(4, 2) >> }
\* A composite region at offset 0 of a buffer, with its constituents.
EngineBuf(ranges) == Pad(<< 0, Len(ranges), 0, 0 >> \o RangeWords(ranges))
\* The records it is given: any of the host's pages shared with the SPMD.
EngineRecords ==
    { [p \in Pages |-> IF p \in GuestPages THEN "guest"
                       ELSE IF p \in S THEN "shared_ffa" ELSE "owned"] :
          S \in SUBSET (Pages \ GuestPages) }
EngineFaults == { {}, { 4 } }
InitEngine ==
    /\ pc = [c \in Cores |-> "idle"]
    /\ regs = [c \in Cores |-> NoRegs]
    /\ res = [c \in Cores |-> Unset]
    /\ offset = [c \in Cores |-> 0]
    /\ lock = 0
    /\ host_tx = NULL
    /\ host_rx = NULL
    /\ host_txbuf = ZeroBuf
    /\ \E rs \in EngineRangeLists : ffa_buffers = [tx |-> ZeroBuf, rx |-> EngineBuf(rs)]
    /\ owner \in EngineRecords
    /\ spmd_mapped = FALSE
    /\ spmd_held = [h \in Handles |-> NoXfer]
    /\ pre = [c \in Cores |-> owner]
    /\ trace = [c \in Cores |-> << >>]
    /\ ncalls = 0
    /\ life = << >>
    /\ s2_fail \in EngineFaults
    /\ boot = Booted(GoodBoot)
\* ffa_host_unshare_ranges(reg->constituents, reg->addr_range_cnt) applied
\* once: the record it leaves, the table calls it made and, as a result
\* word, the value it returned.
EngineUnshare ==
    /\ ncalls = 0
    /\ ncalls' = 1
    /\ LET rx == ffa_buffers.rx
           un == ffa_host_unshare_ranges(owner, rx, 0, addr_range_cnt(rx, 0))
       IN /\ owner' = un.own
          /\ trace' = [trace EXCEPT ![1] = un.ev]
          /\ res' = [res EXCEPT ![1] = ffa_to_smccc_res(un.ret)]
    /\ pre' = [pre EXCEPT ![1] = owner]
    /\ UNCHANGED << boot, s2_fail, life, pc, regs, offset, lock, host_tx, host_rx, host_txbuf,
                    ffa_buffers, spmd_mapped, spmd_held >>
NextEngine == EngineUnshare
SpecEngine == InitEngine /\ [][NextEngine]_vars

(* ----------------------- hyp_ffa_init on its own ---------------------- *)
\* Before hyp_ffa_init: ffa_buffers and host_kvm.ffa are zeroed statics, no
\* buffer assigned.
InitBoot ==
    /\ pc = [c \in Cores |-> "idle"]
    /\ regs = [c \in Cores |-> NoRegs]
    /\ res = [c \in Cores |-> Unset]
    /\ offset = [c \in Cores |-> 0]
    /\ lock = 0
    /\ host_tx = NULL
    /\ host_rx = NULL
    /\ host_txbuf = ZeroBuf
    /\ ffa_buffers = [tx |-> NULL, rx |-> NULL]
    /\ owner = [p \in Pages |-> IF p \in GuestPages THEN "guest" ELSE "owned"]
    /\ spmd_mapped = FALSE
    /\ spmd_held = [h \in Handles |-> NoXfer]
    /\ pre = [c \in Cores |-> owner]
    /\ trace = [c \in Cores |-> << >>]
    /\ ncalls = 0
    /\ life = << >>
    /\ s2_fail = {}
    /\ \E in \in BootInputs : boot = NotBooted(in)
\* hyp_ffa_init runs once; the buffers are assigned at lines 595-603.
HypFfaInit ==
    /\ ~boot.ran
    /\ boot' = Booted(boot.in)
    /\ ffa_buffers' = IF boot'.out.set THEN [tx |-> ZeroBuf, rx |-> ZeroBuf] ELSE ffa_buffers
    /\ UNCHANGED << s2_fail, life, pc, regs, res, offset, lock, host_tx, host_rx, host_txbuf,
                    owner, spmd_mapped, spmd_held, pre, trace, ncalls >>
NextBoot == HypFfaInit
SpecBoot == InitBoot /\ [][NextBoot]_vars

(* --------------- an SPMD that answers with an odd offset -------------- *)
\* One host CPU issuing calls to an SPMD that may answer a retrieve request
\* with a composite offset equal to the size of the buffer.
NextEdge ==
    \/ XferCall(1, ConcXferInputs) \/ MapCall(1, ConcMapInputs)
    \/ UnmapCall(1, ConcUnmapIds) \/ ReclaimCall(1, ConcReclaimInputs)
    \/ OtherCall(1, ConcOtherInputs)
    \/ Run(1)
    \/ ReclaimRetrieveRetEdge(1)
    \/ HostWrite
SpecEdge == Init /\ [][NextEdge]_vars

(* ------------------- a host stage-2 that can fail --------------------- *)
\* The shares the CPUs race with when the unshare can fail: two of one
\* range each, on different pages, and one of both ranges.
FaultXferInputs ==
    { XI("FFA_FN64_MEM_SHARE", XA(80, 80, 0, 0),
         MkDesc(HOST_FFA_ID, 1, OffHdr, 1, << Rg(0, 1) >>)),
      XI("FFA_FN64_MEM_LEND", XA(80, 80, 0, 0),
         MkDesc(HOST_FFA_ID, 1, OffHdr, 1, << Rg(4, 1) >>)),
      XI("FFA_FN64_MEM_SHARE", XA(96, 96, 0, 0),
         MkDesc(HOST_FFA_ID, 1, OffHdr, 2, << Rg(0, 1), Rg(4, 1) >>)) }
FaultSets == { {}, { 0, 2 }, { 4 } }
\* The host stage-2 code starts or stops failing to unshare at a pfn, while
\* the SPMD has a call.
StageTwoFault ==
    /\ \E c \in Cores : pc[c] \in { "xfer_smc", "reclaim_smc" }
    /\ \E f \in FaultSets : s2_fail' = f
    /\ s2_fail' # s2_fail
    /\ UNCHANGED << boot, life, pc, regs, res, offset, lock, host_tx, host_rx, host_txbuf,
                    ffa_buffers, owner, spmd_mapped, spmd_held, pre, trace, ncalls >>
NextFault ==
    \/ \E c \in Cores :
          \/ XferCall(c, FaultXferInputs) \/ MapCall(c, ConcMapInputs)
          \/ UnmapCall(c, ConcUnmapIds) \/ ReclaimCall(c, ConcReclaimInputs)
          \/ OtherCall(c, ConcOtherInputs)
          \/ Run(c)
    \/ HostWrite
    \/ StageTwoFault
SpecFault == Init /\ [][NextFault]_vars

(* ============================== claims ================================ *)
IsXferCall(c) == regs[c].x0 \in XferFuncs
Done(c) == pc[c] = "idle"
Events(c, o) == SelectSeq(trace[c], LAMBDA e : e.op = o)
Copied(c) == Events(c, "memcpy") # << >>
Forwards(c) ==
    SelectSeq(trace[c], LAMBDA e : e.op = "smc" /\ e.f \in { "FFA_FN64_MEM_SHARE", "FFA_FN64_MEM_LEND" })
Answers(c) == Events(c, "ans")
ErrorIs(r, code) == r.a0 = "FFA_ERROR" /\ r.a2 = code
ShareFailed(c) == \E k \in 1 .. Len(trace[c]) : trace[c][k].op = "share" /\ ~trace[c][k].ok
\* Page p lies in a constituent range of the composite region at buf + off,
\* by the page count the range declares.
Declared(buf, off, p) ==
    \E i \in 0 .. (addr_range_cnt(buf, off) - 1) :
        p >= range_pfn(buf, off, i) /\ p - range_pfn(buf, off, i) < range_pg_cnt(buf, off, i)

\* C1: a share or lend is forwarded to the SPMD only once every page of every
\* range of the descriptor is marked shared in the ownership record, and a
\* call whose local share failed on a range returns "denied" with nothing
\* forwarded.
C1_ForwardOnlyAfterAllShared ==
    \A c \in Cores : IsXferCall(c) =>
        /\ pc[c] = "xfer_smc" =>
              \A p \in Pages :
                  Declared(ffa_buffers.tx, offset[c], p) => owner[p] = "shared_ffa"
        /\ (Done(c) /\ ShareFailed(c)) =>
              (ErrorIs(res[c], FFA_RET_DENIED) /\ Forwards(c) = << >>)

\* C2: whenever no call is inside its critical section, the pages marked
\* shared with the secure world are exactly the pages the SPMD holds.
C2_SharedEqualsDownstream ==
    lock = 0 => \A p \in Pages : (owner[p] = "shared_ffa") <=> SpmdHolds(p)

\* C3: when the local share fails at range k, exactly the ranges 0..k-1 that
\* this call marked are unshared again, in order, the call returns "denied",
\* and the ownership record is what it was before the call.
C3_AtomicRollback ==
    \A c \in Cores : (Done(c) /\ IsXferCall(c) /\ ShareFailed(c)) =>
        LET sh == Events(c, "share")
            un == Events(c, "unshare")
            k == Len(sh) - 1
        IN /\ ~sh[k + 1].ok
           /\ Len(un) = k
           /\ \A i \in 1 .. k :
                 /\ sh[i].ok /\ un[i].ok
                 /\ un[i].a = range_pfn(ffa_buffers.tx, offset[c], i - 1)
                 /\ un[i].a = sh[i].a /\ un[i].b = sh[i].b
           /\ ErrorIs(res[c], FFA_RET_DENIED)
           /\ owner = pre[c]
C3_Witness ==
    \E c \in Cores :
        /\ Done(c) /\ IsXferCall(c) /\ ShareFailed(c)
        /\ Len(Events(c, "unshare")) >= 1
        /\ \E p \in Pages : pre[c][p] = "shared_ffa"

\* C4: when the local share succeeded and the SPMD did not answer
\* FFA_SUCCESS, the same ranges are unshared, the ownership record is what it
\* was before the call, and the caller gets the SPMD's four result words.
C4_RollbackOnReject ==
    \A c \in Cores :
        (Done(c) /\ IsXferCall(c) /\ Forwards(c) # << >>
            /\ Answers(c)[1].r.a0 # "FFA_SUCCESS") =>
        LET sh == Events(c, "share")
            un == Events(c, "unshare")
        IN /\ Len(un) = Len(sh)
           /\ \A i \in 1 .. Len(sh) :
                 un[i].ok /\ un[i].a = sh[i].a /\ un[i].b = sh[i].b
           /\ owner = pre[c]
           /\ res[c] = Answers(c)[1].r
C4_Witness ==
    \E c \in Cores :
        /\ Done(c) /\ IsXferCall(c) /\ Forwards(c) # << >>
        /\ Answers(c)[1].r = SpmdError(FFA_RET_NO_MEMORY)
        /\ Len(Events(c, "share")) = 2
        /\ \A i \in 1 .. 2 : Events(c, "share")[i].b = 1

\* C5: calls issued concurrently are serialised by the lock: while a call is
\* inside its critical section no other call changes what the lock protects,
\* no two calls are inside at once, and the protected state changes only in a
\* step of the call that holds the lock (or takes it free in that step).
Protected == << host_tx, host_rx, ffa_buffers, owner, spmd_mapped, spmd_held >>
InCS(c) == pc[c] \in { "xfer_smc", "map_smc", "reclaim_retrieve", "reclaim_smc" }
C5_Serialised ==
    [][ /\ \A c \in Cores :
              (InCS(c) /\ pc'[c] = pc[c] /\ trace'[c] = trace[c]) => Protected' = Protected
        /\ \A c1, c2 \in Cores : (InCS(c1)' /\ InCS(c2)') => c1 = c2
        /\ \A c \in Cores : InCS(c)' => lock' = c
        /\ Protected' # Protected =>
              \E c \in Cores : trace'[c] # trace[c] /\ lock \in { 0, c } ]_vars
C5_Witness ==
    \E c1, c2 \in Cores :
        /\ pc[c1] = "xfer_smc"
        /\ pc[c2] \in { "xfer_lock", "map_lock", "unmap_lock", "reclaim_lock" }

\* The fragment a call was made with: the copy the proxy took, or, when it
\* took none, what the host has in its tx buffer.
CallDesc(c) == IF Copied(c) THEN ffa_buffers.tx ELSE host_txbuf
\* offset + sizeof(composite) + addr_range_cnt * sizeof(range) > fraglen, in
\* unbounded arithmetic.
ExtentExceeds(buf, fraglen) ==
    LET off == composite_off(buf)
        room == fraglen - off - SZ_COMPOSITE_MEM_REGION
    IN room < 0 \/ addr_range_cnt(buf, off) > room \div SZ_ADDR_RANGE
NothingDone(c) ==
    /\ Events(c, "share") = << >> /\ Events(c, "unshare") = << >>
    /\ Events(c, "smc") = << >>
    /\ owner = pre[c]
\* The register values with which the call is reported as fragmented.
Fragmented(c) ==
    /\ regs[c].x3 = 0 /\ regs[c].x4 = 0
    /\ regs[c].x2 < regs[c].x1 /\ regs[c].x2 <= MBOX_BYTES

C7_Original ==
    \A c \in Cores :
        (Done(c) /\ IsXferCall(c) /\ regs[c].x2 > regs[c].x1) =>
            ErrorIs(res[c], FFA_RET_ABORTED)
\* C7 as amended: it returns "invalid parameters".
C7_Amended ==
    \A c \in Cores :
        (Done(c) /\ IsXferCall(c) /\ regs[c].x2 > regs[c].x1) =>
            ErrorIs(res[c], FFA_RET_INVALID_PARAMETERS)
C7_Witness ==
    \E c \in Cores :
        /\ Done(c) /\ IsXferCall(c) /\ regs[c].x2 > regs[c].x1
        /\ regs[c].x3 = 0 /\ regs[c].x4 = 0
        /\ host_tx # NULL

\* C8: a share or lend with fragment length less than total length (reserved
\* registers zero, fragment within the buffer capacity) returns "aborted"
\* whatever the buffer holds and whether or not it is mapped, without taking
\* the lock, calling the engine, forwarding or touching the ownership record.
C8_FragmentedAborted ==
    \A c \in Cores : (IsXferCall(c) /\ Fragmented(c)) =>
        /\ Done(c)
        /\ ErrorIs(res[c], FFA_RET_ABORTED)
        /\ trace[c] = << >>
        /\ owner = pre[c]
C8_Witness ==
    \E c \in Cores :
        /\ Done(c) /\ IsXferCall(c) /\ Fragmented(c)
        /\ regs[c].x2 < SZ_MEM_REGION + SZ_MEM_REGION_ATTRIBUTES
        /\ host_tx # NULL
        /\ ep_count(host_txbuf) = 2

\* C9 as stated: a descriptor with no or several endpoint-access entries is
\* rejected with "invalid parameters" before any ownership change and before
\* anything is forwarded.
C9_Original ==
    \A c \in Cores :
        (Done(c) /\ IsXferCall(c) /\ ep_count(CallDesc(c)) # 1) =>
            (ErrorIs(res[c], FFA_RET_INVALID_PARAMETERS) /\ NothingDone(c))
\* C9 as amended: it is rejected before any ownership change and before
\* anything is forwarded, with "aborted" when the registers make the call
\* fragmented and with "invalid parameters" otherwise.
C9_Amended ==
    \A c \in Cores :
        (Done(c) /\ IsXferCall(c) /\ ep_count(CallDesc(c)) # 1) =>
            /\ NothingDone(c)
            /\ ErrorIs(res[c], IF Fragmented(c) THEN FFA_RET_ABORTED
                               ELSE FFA_RET_INVALID_PARAMETERS)
C9_Witness ==
    \E c \in Cores :
        /\ Done(c) /\ IsXferCall(c) /\ Copied(c)
        /\ ep_count(ffa_buffers.tx) = 2
        /\ sender_id(ffa_buffers.tx) = HOST_FFA_ID /\ composite_off(ffa_buffers.tx) = OffHdr
        /\ ErrorIs(res[c], FFA_RET_INVALID_PARAMETERS)

\* The conditions C10 lists.
C10_Listed(c) ==
    \/ regs[c].x3 # 0 \/ regs[c].x4 # 0
    \/ regs[c].x2 > MBOX_BYTES
    \/ regs[c].x2 < SZ_MEM_REGION + SZ_MEM_REGION_ATTRIBUTES
    \/ sender_id(CallDesc(c)) # HOST_FFA_ID
    \/ composite_off(CallDesc(c)) = 0
\* C10 as stated: under any of the listed conditions the call returns
\* "invalid parameters" with no engine call, no SMC and the ownership record
\* unchanged.
C10_Original ==
    \A c \in Cores : (Done(c) /\ IsXferCall(c) /\ C10_Listed(c)) =>
        (ErrorIs(res[c], FFA_RET_INVALID_PARAMETERS) /\ NothingDone(c))
\* C10 as amended: the same, except that a call the registers make fragmented
\* returns "aborted" (still with nothing done).
C10_Amended ==
    \A c \in Cores : (Done(c) /\ IsXferCall(c) /\ C10_Listed(c)) =>
        /\ NothingDone(c)
        /\ ErrorIs(res[c], IF Fragmented(c) THEN FFA_RET_ABORTED
                           ELSE FFA_RET_INVALID_PARAMETERS)
C10_Witness ==
    \E c \in Cores :
        /\ Done(c) /\ IsXferCall(c) /\ Copied(c)
        /\ composite_off(ffa_buffers.tx) = 0
        /\ sender_id(ffa_buffers.tx) = HOST_FFA_ID /\ ep_count(ffa_buffers.tx) = 1
        /\ ErrorIs(res[c], FFA_RET_INVALID_PARAMETERS)

MapReturns(c) == pc[c] \in { "map_lock", "map_smc" } /\ pc'[c] = "idle"
\* The mapping and the hypervisor grants a history entry shows.
Grants(e) == << e.tx, e.rx, e.mapped, e.hyp >>
\* In the history: a map, then an unmap, then a map with the registers of
\* the first, with the SPMD answering FFA_SUCCESS throughout.
MapUnmapMap(l) ==
    /\ Len(l) = 3
    /\ l[1].op = "map" /\ l[2].op = "unmap" /\ l[3].op = "map"
    /\ l[1].res.a0 = "FFA_SUCCESS" /\ l[2].res.a0 = "FFA_SUCCESS" /\ l[2].spmd_ok
    /\ << l[3].x1, l[3].x2, l[3].x3 >> = << l[1].x1, l[1].x2, l[1].x3 >>

\* C11: with the SPMD answering FFA_SUCCESS, a map with valid registers of
\* two distinct host-owned pages succeeds when nothing is mapped; a map that
\* follows a successful map with no unmap in between returns "denied" and
\* changes nothing; and after map, unmap, map with the same registers the
\* second map succeeds like the first and leaves the same mapping and grants.
C11_Lifecycle ==
    [][ \A c \in Cores : MapReturns(c) =>
          LET txp == hyp_phys_to_pfn(regs[c].x1)
              rxp == hyp_phys_to_pfn(regs[c].x2)
          IN /\ ( /\ host_tx = NULL
                  /\ Answers(c)'[1].r.a0 = "FFA_SUCCESS"
                  /\ txp # rxp /\ txp \in Pages /\ rxp \in Pages
                  /\ owner[txp] = "owned" /\ owner[rxp] = "owned" ) =>
                     /\ res'[c] = ffa_to_smccc_res(FFA_RET_SUCCESS)
                     /\ host_tx' = << regs[c].x1 >> /\ host_rx' = << regs[c].x2 >>
                     /\ owner' = [owner EXCEPT ![txp] = "shared_hyp", ![rxp] = "shared_hyp"]
             /\ ( /\ life # << >>
                  /\ life[Len(life)].op = "map"
                  /\ life[Len(life)].res.a0 = "FFA_SUCCESS" ) =>
                     /\ ErrorIs(res'[c], FFA_RET_DENIED)
                     /\ Protected' = Protected
             /\ MapUnmapMap(life') =>
                     /\ life'[3].res = ffa_to_smccc_res(FFA_RET_SUCCESS)
                     /\ Grants(life'[3]) = Grants(life'[1]) ]_vars
C11_Witness ==
    /\ MapUnmapMap(life)
    /\ life[3].res.a0 = "FFA_SUCCESS"
    /\ life[3].tx # NULL /\ life[3].hyp # { }
    /\ \E c \in Cores : Done(c) /\ regs[c].x0 = "FFA_FN64_RXTX_MAP"

IsMapCall(c) == regs[c].x0 = "FFA_FN64_RXTX_MAP"
GrantFailed(c) == \E k \in 1 .. Len(trace[c]) : trace[c][k].op = "share_hyp" /\ ~trace[c][k].ok
\* What the call did after its last grant attempt.
AfterGrants(c) ==
    LET k == CHOOSE j \in 1 .. Len(trace[c]) :
                 /\ trace[c][j].op = "share_hyp"
                 /\ \A i \in (j + 1) .. Len(trace[c]) : trace[c][i].op # "share_hyp"
    IN SubSeq(trace[c], k + 1, Len(trace[c]))
Ops(t) == [k \in 1 .. Len(t) |-> t[k].op]

\* C12: a map call in which a grant fails after the SPMD mapped undoes what
\* it did in reverse order (when the rx grant failed: the tx grant is revoked,
\* then FFA_RXTX_UNMAP is issued; when the tx grant failed: FFA_RXTX_UNMAP is
\* issued), returns "invalid parameters", records no mapping and leaves no
\* page granted to the hypervisor; a map call the SPMD refuses returns the
\* SPMD's error code and attempts no grant.
C12_MapUnwind ==
    \A c \in Cores : (Done(c) /\ IsMapCall(c)) =>
        LET sh == Events(c, "share_hyp")
            txp == hyp_phys_to_pfn(regs[c].x1)
            rxp == hyp_phys_to_pfn(regs[c].x2)
            rest == AfterGrants(c)
        IN /\ GrantFailed(c) =>
                /\ Answers(c)[1].r.a0 = "FFA_SUCCESS"
                /\ sh[1].a = txp
                /\ IF sh[1].ok
                   THEN /\ Len(sh) = 2 /\ sh[2].a = rxp /\ ~sh[2].ok
                        /\ Ops(rest) = << "unshare_hyp", "smc", "ans", "unlock" >>
                        /\ rest[1].a = txp /\ rest[1].ok
                        /\ rest[2].f = "FFA_RXTX_UNMAP"
                   ELSE /\ Len(sh) = 1
                        /\ Ops(rest) = << "smc", "ans", "unlock" >>
                        /\ rest[1].f = "FFA_RXTX_UNMAP"
                /\ ErrorIs(res[c], FFA_RET_INVALID_PARAMETERS)
                /\ host_tx = NULL /\ host_rx = NULL
                /\ owner = pre[c]
                /\ \A p \in Pages : owner[p] # "shared_hyp"
           /\ (Answers(c) # << >> /\ Answers(c)[1].r.a0 # "FFA_SUCCESS") =>
                /\ res[c] = ffa_to_smccc_res(Answers(c)[1].r.a2)
                /\ sh = << >>
                /\ Events(c, "smc") = << spmd_map_ffa_buffers(regs[c].x3) >>
                /\ host_tx = NULL /\ host_rx = NULL
                /\ owner = pre[c]
C12_Witness ==
    \E c \in Cores :
        /\ Done(c) /\ IsMapCall(c) /\ GrantFailed(c)
        /\ Len(Events(c, "share_hyp")) = 2
        /\ Events(c, "unshare_hyp") # << >>
        /\ \E p \in Pages : owner[p] = "shared_ffa"

\* The registers of a map call that the claim lists: a page count other than
\* the one of the buffer geometry, or a tx or rx address off a page boundary.
MapArgsBad(r) ==
    \/ r.x3 * FFA_PAGE_SIZE # KVM_FFA_MBOX_NR_PAGES * PAGE_SIZE
    \/ r.x1 % PAGE_SIZE # 0
    \/ r.x2 % PAGE_SIZE # 0
\* Core c traps with a new call in this step.
Traps(c) == pc[c] = "idle" /\ ncalls' # ncalls /\ regs'[c] # NoRegs

\* C13: a map call with a wrong page count or a misaligned tx or rx address
\* returns "invalid parameters" at once: the lock is not taken, no SMC is
\* issued, and mapping, grants and ownership record stay as they were.
C13_MapArgsRejected ==
    [][ \A c \in Cores : (Traps(c) /\ IsMapCall(c)' /\ MapArgsBad(regs'[c])) =>
          /\ pc'[c] = "idle"
          /\ ErrorIs(res'[c], FFA_RET_INVALID_PARAMETERS)
          /\ lock' = lock
          /\ Protected' = Protected ]_vars
C13_Witness ==
    \E c \in Cores :
        /\ Done(c) /\ IsMapCall(c) /\ trace[c] = << >>
        /\ regs[c].x3 = 1 /\ regs[c].x1 % PAGE_SIZE = 0 /\ regs[c].x2 % PAGE_SIZE # 0
        /\ ErrorIs(res[c], FFA_RET_INVALID_PARAMETERS)
        /\ host_tx # NULL

IsUnmapCall(c) == regs[c].x0 = "FFA_RXTX_UNMAP"
\* The unmap call of core c returns in this step: at the trap, or from under
\* the lock.
UnmapReturns(c) ==
    /\ IsUnmapCall(c)' /\ pc'[c] = "idle"
    /\ Traps(c) \/ pc[c] = "unmap_lock"

\* C14: an unmap call for another endpoint id, or made when nothing is
\* mapped, returns "invalid parameters" and changes nothing; any other unmap
\* call succeeds, revokes the hypervisor's grants of the tx and the rx page,
\* issues FFA_RXTX_UNMAP to the SPMD and leaves tx and rx unrecorded.
C14_Unmap ==
    [][ \A c \in Cores : UnmapReturns(c) =>
          IF regs'[c].x1 # HOST_FFA_ID \/ host_tx = NULL
          THEN /\ ErrorIs(res'[c], FFA_RET_INVALID_PARAMETERS)
               /\ Protected' = Protected
          ELSE LET txp == host_tx[1] \div PAGE_SIZE
                   rxp == host_rx[1] \div PAGE_SIZE
               IN /\ res'[c] = ffa_to_smccc_res(FFA_RET_SUCCESS)
                  /\ owner[txp] = "shared_hyp" /\ owner[rxp] = "shared_hyp"
                  /\ owner' = [owner EXCEPT ![txp] = "owned", ![rxp] = "owned"]
                  /\ Ops(Events(c, "unshare_hyp")') = << "unshare_hyp", "unshare_hyp" >>
                  /\ Ops(Events(c, "smc")') = << "smc" >>
                  /\ Events(c, "smc")'[1].f = "FFA_RXTX_UNMAP"
                  /\ host_tx' = NULL /\ host_rx' = NULL ]_vars
C14_Witness ==
    \E c \in Cores :
        /\ Done(c) /\ IsUnmapCall(c)
        /\ res[c] = ffa_to_smccc_res(FFA_RET_SUCCESS)
        /\ Len(Events(c, "unshare_hyp")) = 2
        /\ host_tx = NULL /\ host_rx = NULL
        /\ \A p \in Pages : owner[p] # "shared_hyp"
        /\ \E p \in Pages : owner[p] = "shared_ffa"

IsReclaimCall(c) == regs[c].x0 = "FFA_MEM_RECLAIM"
Reclaims(c) == SelectSeq(trace[c], LAMBDA e : e.op = "smc" /\ e.f = "FFA_MEM_RECLAIM")
\* Position in the trace of the k-th event with operation o.
Position(c, o, k) ==
    CHOOSE j \in 1 .. Len(trace[c]) :
        /\ trace[c][j].op = o
        /\ Cardinality({ i \in 1 .. j : trace[c][i].op = o }) = k

\* C15: a reclaim whose retrieve response is fragmented (a1 # a2) or carries
\* a composite offset greater than the buffer capacity returns "aborted",
\* issues no FFA_MEM_RECLAIM and leaves the ownership record and the SPMD's
\* transfers as they were.
C15_ReclaimAborted ==
    \A c \in Cores :
        ( /\ Done(c) /\ IsReclaimCall(c)
          /\ Answers(c)[1].r.a0 = "FFA_MEM_RETRIEVE_RESP"
          /\ \/ Answers(c)[1].r.a1 # Answers(c)[1].r.a2
             \/ composite_off(ffa_buffers.rx) > MBOX_BYTES ) =>
        /\ ErrorIs(res[c], FFA_RET_ABORTED)
        /\ Reclaims(c) = << >>
        /\ Events(c, "unshare") = << >>
        /\ owner = pre[c]
        /\ spmd_held[regs[c].x1].live
C15_Witness ==
    \E c \in Cores :
        /\ Done(c) /\ IsReclaimCall(c)
        /\ Answers(c)[1].r.a0 = "FFA_MEM_RETRIEVE_RESP"
        /\ Answers(c)[1].r.a1 # Answers(c)[1].r.a2
        /\ ErrorIs(res[c], FFA_RET_ABORTED)
        /\ \E p \in Pages : owner[p] = "shared_ffa"

\* C16: a reclaim whose retrieve request is answered with anything but a
\* retrieve response returns the SPMD's four result words, issues no
\* FFA_MEM_RECLAIM and leaves the ownership record as it was.
C16_RetrievePassThrough ==
    \A c \in Cores :
        ( /\ Done(c) /\ IsReclaimCall(c)
          /\ Answers(c)[1].r.a0 # "FFA_MEM_RETRIEVE_RESP" ) =>
        /\ res[c] = Answers(c)[1].r
        /\ Reclaims(c) = << >>
        /\ Events(c, "unshare") = << >>
        /\ owner = pre[c]
C16_Witness ==
    \E c \in Cores :
        /\ Done(c) /\ IsReclaimCall(c)
        /\ Answers(c) = << EvAns(SpmdError(FFA_RET_NO_MEMORY)) >>
        /\ res[c] = SpmdError(FFA_RET_NO_MEMORY)
        /\ \E p \in Pages : owner[p] = "shared_ffa"

\* C17: in a reclaim nothing is unshared while the SPMD's answer to
\* FFA_MEM_RECLAIM is pending; when that answer is FFA_SUCCESS the ranges of
\* the retrieved descriptor are unshared after it, when it is not the
\* ownership record stays as it was; either way the caller gets the four
\* result words of that answer.
C17_ReclaimOrder ==
    \A c \in Cores : (IsReclaimCall(c) /\ Reclaims(c) # << >>) =>
        LET un == Events(c, "unshare")
            rx == ffa_buffers.rx
        IN IF ~Done(c)
           THEN un = << >> /\ owner = pre[c]
           ELSE /\ res[c] = Answers(c)[2].r
                /\ IF Answers(c)[2].r.a0 = "FFA_SUCCESS"
                   THEN /\ Len(un) = addr_range_cnt(rx, offset[c])
                        /\ \A i \in 1 .. Len(un) :
                              /\ un[i].ok
                              /\ un[i].a = range_pfn(rx, offset[c], i - 1)
                              /\ Position(c, "unshare", i) > Position(c, "ans", 2)
                              /\ pre[c][un[i].a] = "shared_ffa"
                              /\ owner[un[i].a] = "owned"
                   ELSE un = << >> /\ owner = pre[c]
C17_Witness ==
    \E c \in Cores :
        /\ Done(c) /\ IsReclaimCall(c) /\ Reclaims(c) # << >>
        /\ res[c] = SpmdSuccess(0, 0)
        /\ Len(Events(c, "unshare")) = 2

NotSupported == [a0 |-> "FFA_ERROR", a1 |-> 0, a2 |-> FFA_RET_NOT_SUPPORTED, a3 |-> 0]
\* The call of core c returned at the trap without taking the lock or
\* changing what the lock protects.
ReturnsUntouched(c) == pc'[c] = "idle" /\ lock' = lock /\ Protected' = Protected
\* The function ids C18 lists: retrieve request and response, relinquish,
\* pause and resume, donation, indirect message send, poll and wait, the
\* 32-bit direct request and response, and the 32-bit RX/TX map.
C18_Listed ==
    { "FFA_MEM_RETRIEVE_REQ", "FFA_FN64_MEM_RETRIEVE_REQ", "FFA_MEM_RETRIEVE_RESP",
      "FFA_MEM_RELINQUISH", "FFA_MEM_OP_PAUSE", "FFA_MEM_OP_RESUME",
      "FFA_MEM_DONATE", "FFA_FN64_MEM_DONATE",
      "FFA_MSG_SEND", "FFA_MSG_POLL", "FFA_MSG_WAIT",
      "FFA_MSG_SEND_DIRECT_REQ", "FFA_MSG_SEND_DIRECT_RESP", "FFA_RXTX_MAP" }

\* C18: a call with a listed function id, and a feature query naming one, is
\* answered "not supported" at the trap: it is not left to the default path,
\* no SMC is issued, and mapping and ownership record stay as they were.
C18_UnsupportedRejected ==
    [][ \A c \in Cores :
          ( /\ Traps(c)
            /\ \/ regs'[c].x0 \in C18_Listed
               \/ regs'[c].x0 = "FFA_FEATURES" /\ FuncIdOf(regs'[c].x1) \in C18_Listed ) =>
          /\ res'[c] = NotSupported
          /\ trace'[c] = << >>
          /\ ReturnsUntouched(c) ]_vars
C18_Witness ==
    \E c \in Cores :
        /\ Done(c) /\ regs[c].x0 = "FFA_FN64_MEM_DONATE"
        /\ res[c] = NotSupported /\ trace[c] = << >>
        /\ host_tx # NULL
        /\ \E p \in Pages : owner[p] = "shared_ffa"

\* C19: a fragment transmit and a fragment receive are answered "not
\* supported" and are not left to the default path.
C19_FragmentsRejected ==
    \A c \in Cores :
        (Done(c) /\ regs[c].x0 \in { "FFA_MEM_FRAG_TX", "FFA_MEM_FRAG_RX" }) =>
            (res[c] = NotSupported /\ Events(c, "pass") = << >>)

\* C20: a feature query returns at the trap without the lock and without
\* changing any state, and what it returns is decided by the queried id
\* alone: "not supported" for an id of the unsupported list, FFA_SUCCESS
\* with a zero property word for the share and lend ids, and for any other
\* id the call is not handled and the registers are left as they were.
C20_Features ==
    [][ \A c \in Cores : (Traps(c) /\ regs'[c].x0 = "FFA_FEATURES") =>
          /\ ReturnsUntouched(c)
          /\ IF FuncIdOf(regs'[c].x1) \in C18_Listed \cup { "FFA_MEM_FRAG_RX" }
             THEN res'[c] = NotSupported /\ trace'[c] = << >>
             ELSE IF FuncIdOf(regs'[c].x1) \in { "FFA_MEM_SHARE", "FFA_FN64_MEM_SHARE",
                                       "FFA_MEM_LEND", "FFA_FN64_MEM_LEND" }
             THEN /\ res'[c] = [a0 |-> "FFA_SUCCESS", a1 |-> 0, a2 |-> 0, a3 |-> 0]
                  /\ trace'[c] = << >>
             ELSE /\ res'[c] = Unset
                  /\ Ops(trace'[c]) = << "pass" >> ]_vars
C20_Witness ==
    \E c \in Cores :
        /\ Done(c) /\ regs[c].x0 = "FFA_FEATURES" /\ FuncIdOf(regs[c].x1) = "FFA_MEM_LEND"
        /\ res[c].a0 = "FFA_SUCCESS" /\ res[c].a2 = 0
        /\ host_tx # NULL
        /\ \E p \in Pages : owner[p] = "shared_ffa"

\* The operations the proxy handles itself.
HandledFuncs ==
    { "FFA_FEATURES", "FFA_FN64_RXTX_MAP", "FFA_RXTX_UNMAP", "FFA_MEM_SHARE",
      "FFA_FN64_MEM_SHARE", "FFA_MEM_LEND", "FFA_FN64_MEM_LEND", "FFA_MEM_RECLAIM" }

\* C21: a call whose function id lies outside the FF-A range, or inside it
\* but is neither a handled operation nor in the unsupported list, is
\* reported as not handled: no result is written to the registers, the lock
\* is not taken, and mapping and ownership record stay as they were.
C21_PassThrough ==
    [][ \A c \in Cores :
          ( /\ Traps(c)
            /\ regs'[c].x0 \notin HandledFuncs \cup C18_Listed \cup { "FFA_MEM_FRAG_RX" } ) =>
          /\ res'[c] = Unset
          /\ Ops(trace'[c]) = << "pass" >>
          /\ regs'[c].x0 = trace'[c][1].f
          /\ ReturnsUntouched(c) ]_vars
C21_Witness ==
    /\ \E c \in Cores :
          /\ Done(c) /\ regs[c].x0 = "FFA_RX_RELEASE"
          /\ res[c] = Unset /\ Ops(trace[c]) = << "pass" >>
    /\ host_tx # NULL
    /\ \E p \in Pages : owner[p] = "shared_ffa"

\* The SMCs that carry a transfer: share, lend, retrieve request, reclaim.
TransferSmcs ==
    { "FFA_FN64_MEM_SHARE", "FFA_FN64_MEM_LEND", "FFA_FN64_MEM_RETRIEVE_REQ",
      "FFA_MEM_RECLAIM" }
\* Core c has issued a transfer SMC and the SPMD has not answered it yet.
InFlight(c) ==
    /\ pc[c] \in { "xfer_smc", "reclaim_retrieve", "reclaim_smc" }
    /\ trace[c][Len(trace[c])].op = "smc"
    /\ trace[c][Len(trace[c])].f \in TransferSmcs

\* C22: while a share, lend, retrieve request or reclaim is with the SPMD,
\* the host's tx and rx buffers are recorded as mapped.
C22_MappedWhileInFlight ==
    \A c \in Cores : InFlight(c) => (host_tx # NULL /\ host_rx # NULL)

\* The call of core c has returned and was handled by the proxy.
HandledCall(c) == Done(c) /\ regs[c].x0 # "NONE" /\ Events(c, "pass") = << >>
\* The error codes the proxy reports of its own.
OwnCodes ==
    { FFA_RET_INVALID_PARAMETERS, FFA_RET_DENIED, FFA_RET_ABORTED, FFA_RET_NOT_SUPPORTED }

\* C23: every call the proxy handles returns with all four result words
\* assigned, and the result is FFA_SUCCESS, or FFA_ERROR with one of the
\* codes invalid parameters, denied, aborted, not supported, or the four
\* words of an answer the SPMD gave in this call.
C23_DefinedResult ==
    \A c \in Cores : HandledCall(c) =>
        /\ res[c] # Unset
        /\ \/ res[c].a0 = "FFA_SUCCESS"
           \/ res[c].a0 = "FFA_ERROR" /\ res[c].a2 \in OwnCodes
           \/ \E k \in 1 .. Len(Answers(c)) : res[c] = Answers(c)[k].r
C23_Witness ==
    \E c \in Cores :
        /\ HandledCall(c) /\ IsMapCall(c)
        /\ res[c] = SpmdError(FFA_RET_NO_MEMORY)
        /\ \E p \in Pages : owner[p] = "shared_ffa"

\* pg_cnt * FFA_PAGE_SIZE / PAGE_SIZE in unbounded arithmetic: the host page
\* size is a multiple of the FF-A page size, so this is pg_cnt divided by
\* their ratio.
ExactNPages(pg_cnt) == pg_cnt \div (PAGE_SIZE \div FFA_PAGE_SIZE)

\* C24: for each range the engine goes through, the number of pages it asks
\* the ownership record to mark shared, or unshared, is the range's page
\* count scaled by the two page sizes, with no wrap-around: in a share or
\* lend the ranges of the copied descriptor, in a reclaim the ranges of the
\* retrieved one.
C24_ExactPageCount ==
    \A c \in Cores :
        /\ (IsXferCall(c) /\ Copied(c)) =>
              \A o \in { "share", "unshare" } :
                  \A i \in 1 .. Len(Events(c, o)) :
                      Events(c, o)[i].b =
                          ExactNPages(range_pg_cnt(ffa_buffers.tx, offset[c], i - 1))
        /\ IsReclaimCall(c) =>
              \A i \in 1 .. Len(Events(c, "unshare")) :
                  Events(c, "unshare")[i].b =
                      ExactNPages(range_pg_cnt(ffa_buffers.rx, offset[c], i - 1))

\* Both pages of the recorded pair are granted to the hypervisor, and no
\* page is when none is recorded.
BuffersGranted ==
    { p \in Pages : owner[p] = "shared_hyp" } =
        { hyp_phys_to_pfn(host_tx[k]) : k \in 1 .. Len(host_tx) }
        \cup { hyp_phys_to_pfn(host_rx[k]) : k \in 1 .. Len(host_rx) }

\* C25: whenever the lock is free, the tx buffer is recorded exactly when
\* the rx buffer is, exactly the pages of the recorded pair are granted to
\* the hypervisor, and the SPMD has the proxy's buffers mapped exactly when
\* the pair is recorded.
C25_MappingAgrees ==
    lock = 0 =>
        /\ (host_tx # NULL) <=> (host_rx # NULL)
        /\ BuffersGranted
        /\ (host_tx # NULL) <=> spmd_mapped

\* The constituent ranges of the descriptor in buf, as address and count.
RangesOf(buf) ==
    [k \in 1 .. addr_range_cnt(buf, composite_off(buf)) |->
        << range_pfn(buf, composite_off(buf), k - 1),
           range_pg_cnt(buf, composite_off(buf), k - 1) >>]
\* What the share or lend of core c has done agrees with the staging copy:
\* one copy, taken under the lock before anything else; the offset, and the
\* range each engine call was made for, read from the copy; a forwarded
\* descriptor passing the header and extent checks on the copy.
FromCopy(c) ==
    /\ Ops(SubSeq(trace[c], 1, 2)) = << "lock", "memcpy" >>
    /\ Len(Events(c, "memcpy")) = 1
    /\ Events(c, "memcpy")[1].a = regs[c].x2
    /\ offset[c] = composite_off(ffa_buffers.tx)
    /\ \A o \in { "share", "unshare" } :
          /\ Len(Events(c, o)) <= addr_range_cnt(ffa_buffers.tx, offset[c])
          /\ \A i \in 1 .. Len(Events(c, o)) :
                Events(c, o)[i].a = range_pfn(ffa_buffers.tx, offset[c], i - 1)
    /\ Forwards(c) # << >> =>
          /\ sender_id(ffa_buffers.tx) = HOST_FFA_ID
          /\ ep_count(ffa_buffers.tx) = 1
          /\ composite_off(ffa_buffers.tx) # 0
          /\ ~ExtentExceeds(ffa_buffers.tx, regs[c].x2)
          /\ Len(Events(c, "share")) = addr_range_cnt(ffa_buffers.tx, offset[c])

\* C26: a share or lend copies the first fraglen bytes of the host's tx
\* buffer into the proxy's tx buffer once, under the lock; everything it
\* does afterwards is read from the copy; a write of the host to its tx
\* buffer while the SPMD has the call changes neither the copy nor the
\* ownership record; and the ranges the SPMD takes are those of the copy,
\* which are the ranges that were marked shared.
C26_WorksOnCopy ==
    [][ /\ \A c \in Cores : (IsXferCall(c) /\ pc[c] = "xfer_lock" /\ Copied(c)') =>
              \A i \in 1 .. BufWords :
                  4 * i <= regs[c].x2 => ffa_buffers'.tx[i] = host_txbuf[i]
        /\ \A c \in Cores : (IsXferCall(c) /\ Copied(c))' => FromCopy(c)'
        /\ (host_txbuf' # host_txbuf /\ \E c \in Cores : pc[c] = "xfer_smc") =>
              /\ ffa_buffers' = ffa_buffers
              /\ owner' = owner
              /\ offset' = offset
        /\ \A c \in Cores :
              (pc[c] = "xfer_smc" /\ pc'[c] = "idle" /\ res'[c].a0 = "FFA_SUCCESS") =>
                  LET got == spmd_held'[res'[c].a2].ranges
                  IN /\ [k \in 1 .. Len(got) |-> << got[k].pfn, got[k].pg_cnt >>]
                           = RangesOf(ffa_buffers.tx)
                     /\ [k \in 1 .. Len(got) |-> got[k].pfn]
                           = [k \in 1 .. Len(Events(c, "share")) |-> Events(c, "share")[k].a]
      ]_vars
C26_Witness ==
    \E c \in Cores :
        /\ Done(c) /\ IsXferCall(c) /\ res[c].a0 = "FFA_SUCCESS"
        /\ Len(Events(c, "share")) = 2
        /\ RangesOf(host_txbuf) # RangesOf(ffa_buffers.tx)
        /\ spmd_held[res[c].a2].live
        /\ Len(spmd_held[res[c].a2].ranges) = 2

\* The events that touch what the lock protects: the copy into the staging
\* buffer, the ownership-record calls, the SMCs and their answers.
GuardedOps ==
    { "memcpy", "share", "unshare", "share_hyp", "unshare_hyp", "smc", "ans" }
\* In the sequence t every such event comes after a "lock" with no "unlock"
\* in between, and locks and unlocks alternate.
AllUnderLock(t) ==
    /\ \A k \in 1 .. Len(t) : t[k].op \in GuardedOps =>
          \E i \in 1 .. (k - 1) :
              t[i].op = "lock" /\ \A j \in i .. k : t[j].op # "unlock"
    /\ Len(SelectSeq(t, LAMBDA e : e.op = "lock")) <= 1
\* Core c is between its "lock" and its "unlock".
Locked(c) == Events(c, "lock") # << >> /\ Events(c, "unlock") = << >>

\* C27: the recorded mapping, the proxy's buffers, the ownership record and
\* the SPMD's state change only in a step of one call, which holds the lock
\* throughout the step or takes or releases it in that step; every copy,
\* ownership-record call and SMC of a call lies between its lock and its
\* unlock; and a call between its lock and its unlock is the lock's holder.
C27_UnderLock ==
    [][ /\ Protected' # Protected =>
              \E c \in Cores :
                  /\ trace'[c] # trace[c]
                  /\ \A d \in Cores \ { c } : trace'[d] = trace[d]
                  /\ lock \in { 0, c } /\ lock' \in { 0, c }
                  /\ Locked(c) \/ Locked(c)' \/ Events(c, "unlock")' # << >>
        /\ \A c \in Cores : AllUnderLock(trace'[c])
        /\ \A c \in Cores : Locked(c)' => lock' = c
        /\ \A c \in Cores : (lock' = c) => Locked(c)' ]_vars
C27_Witness ==
    \E c1, c2 \in Cores :
        /\ pc[c1] = "reclaim_smc" /\ Locked(c1) /\ lock = c1
        /\ pc[c2] \in { "xfer_lock", "map_lock", "unmap_lock", "reclaim_lock" }
        /\ ~Locked(c2)

\* The call of core c took the lock and released it, once each, the release
\* being the last thing it did; or it did neither.
ReleasedOnce(c) ==
    /\ Len(Events(c, "lock")) = Len(Events(c, "unlock"))
    /\ Len(Events(c, "lock")) <= 1
    /\ Events(c, "lock") # << >> =>
          /\ trace[c][Len(trace[c])].op = "unlock"
          /\ trace[c][1].op = "lock"

\* C28: a call that has returned has released the lock exactly once if it
\* took it, whatever path it returned by; the lock is free whenever no call
\* is in progress; and, the lock being fair and the SPMD answering, every
\* call that has trapped returns.
C28_LockReleased ==
    /\ [](\A c \in Cores : Done(c) => ReleasedOnce(c))
    /\ []((\A c \in Cores : Done(c)) => lock = 0)
    /\ \A c \in Cores : (pc[c] # "idle") ~> (pc[c] = "idle")
C28_Witness ==
    \E c1, c2 \in Cores :
        /\ c1 # c2
        /\ Done(c1) /\ IsMapCall(c1) /\ ErrorIs(res[c1], FFA_RET_DENIED)
        /\ Events(c1, "unlock") # << >>
        /\ Done(c2) /\ IsReclaimCall(c2) /\ Events(c2, "unlock") # << >>
        /\ lock = 0

\* C29: whenever the engine's unshare fails at range index k, the table
\* calls that follow the failed one are exactly the shares of ranges
\* 0..k-1, the ones this call unshared, each successful; the engine returns
\* "denied"; and the ownership record is what it was before the call.
UnshareFailedAt(c) ==
    LET un == Events(c, "unshare")
    IN IF un # << >> /\ ~un[Len(un)].ok THEN Len(un) - 1 ELSE -1
TableCalls(c) == SelectSeq(trace[c], LAMBDA e : e.op \in { "share", "unshare" })
C29_UnshareRollsBack ==
    \A c \in Cores :
        LET k == UnshareFailedAt(c)
            un == Events(c, "unshare")
            sh == Events(c, "share")
            rx == ffa_buffers.rx
        IN (ncalls = 1 /\ k >= 0) =>
              /\ TableCalls(c) = un \o sh
              /\ Len(sh) = k
              /\ \A i \in 1 .. k :
                    /\ sh[i].ok /\ un[i].ok
                    /\ sh[i].a = range_pfn(rx, 0, i - 1) /\ un[i].a = sh[i].a
                    /\ sh[i].b = RangeNPages(range_pg_cnt(rx, 0, i - 1)) /\ un[i].b = sh[i].b
              /\ ErrorIs(res[c], FFA_RET_DENIED)
              /\ owner = pre[c]
C29_Witness ==
    /\ ncalls = 1
    /\ UnshareFailedAt(1) = 2
    /\ s2_fail = {}
    /\ Len(Events(1, "share")) = 2
    /\ owner[0] = "shared_ffa"
    /\ owner = pre[1]
    /\ ErrorIs(res[1], FFA_RET_DENIED)

\* C30: when an unshare fails after the SPMD answered (it confirmed a
\* reclaim, or it rejected a share or lend), the call warns and nothing
\* more: its result is the SPMD's answer word for word, it issues no other
\* SMC, does not try the unshare again, and releases the lock once, last.
LastIndex(t, o) == CHOOSE k \in 0 .. Len(t) :
                      /\ k > 0 => t[k].op = o
                      /\ \A j \in (k + 1) .. Len(t) : t[j].op # o
FailedAfterAnswer(c) ==
    /\ Done(c)
    /\ regs[c].x0 \in XferFuncs \cup { "FFA_MEM_RECLAIM" }
    /\ \E k \in 1 .. Len(trace[c]) :
          /\ trace[c][k].op = "unshare" /\ ~trace[c][k].ok
          /\ \E j \in 1 .. (k - 1) : trace[c][j].op = "ans"
C30_FailureOnlyLogged ==
    \A c \in Cores :
        LET t == trace[c]
            kA == LastIndex(t, "ans")
            kF == LastIndex(t, "unshare")
        IN FailedAfterAnswer(c) =>
              /\ res[c] = t[kA].r
              /\ IsXferCall(c) => t[kA].r.a0 = "FFA_ERROR"
              /\ IsReclaimCall(c) => t[kA].r = SpmdSuccess(0, 0)
              /\ kA < kF /\ ~t[kF].ok
              /\ \A j \in (kA + 1) .. Len(t) : t[j].op # "smc"
              /\ \A j \in (kA + 1) .. (kF - 1) : t[j].op = "unshare" /\ t[j].ok
              /\ \E j \in (kF + 1) .. Len(t) : t[j] = EvWarn
              /\ t[Len(t)] = EvUnlock
              /\ Len(Events(c, "unlock")) = 1
              /\ lock # c
C30_Witness ==
    \E c1, c2 \in Cores :
        /\ FailedAfterAnswer(c1) /\ IsXferCall(c1)
        /\ FailedAfterAnswer(c2) /\ IsReclaimCall(c2)
        /\ res[c1].a0 = "FFA_ERROR" /\ res[c2] = SpmdSuccess(0, 0)
        /\ lock = 0

\* C31: the share or lend forwarded to the SPMD has the function id the host
\* issued, its total length and its fragment length.
C31_ForwardsOriginal ==
    \A c \in Cores :
        \A k \in 1 .. Len(Forwards(c)) :
            LET e == Forwards(c)[k]
            IN IsXferCall(c) => (e.f = regs[c].x0 /\ e.a = regs[c].x1 /\ e.b = regs[c].x2)


\* C32: the FFA_FN64_RXTX_MAP a map call sends to the SPMD carries the tx
\* address, the rx address and the page count of the host's call.
C32_MapsHostBuffers ==
    \A c \in Cores :
        \A k \in 1 .. Len(trace[c]) :
            LET e == trace[c][k]
            IN (IsMapCall(c) /\ e.op = "smc" /\ e.f = "FFA_FN64_RXTX_MAP") =>
                  (e.a = regs[c].x1 /\ e.b = regs[c].x2 /\ e.c = regs[c].x3)


\* C33: a share or lend that has passed the register checks and takes the
\* lock while no buffer pair is recorded returns "invalid parameters" having
\* only taken and released the lock: nothing is copied, the engine is not
\* called, nothing is sent to the SPMD, and no state changes.
C33_UnmappedRejected ==
    [][ \A c \in Cores :
           (pc[c] = "xfer_lock" /\ pc'[c] # "xfer_lock" /\ host_tx = NULL) =>
              /\ pc'[c] = "idle"
              /\ ErrorIs(res'[c], FFA_RET_INVALID_PARAMETERS)
              /\ Ops(trace'[c]) = << "lock", "unlock" >>
              /\ ffa_buffers' = ffa_buffers
              /\ owner' = owner
              /\ spmd_held' = spmd_held
              /\ lock' = 0 ]_vars
C33_Witness ==
    \E c \in Cores :
        /\ Done(c) /\ IsXferCall(c)
        /\ Ops(trace[c]) = << "lock", "unlock" >>
        /\ ErrorIs(res[c], FFA_RET_INVALID_PARAMETERS)
        /\ host_tx = NULL /\ host_rx = NULL
        /\ life # << >>
        /\ life[Len(life)].op = "unmap"
        /\ life[Len(life)].res.a0 = "FFA_SUCCESS"
        /\ host_txbuf \in GoodDescs


\* C34: an unmap call with the host's id that finds a pair recorded returns
\* FFA_SUCCESS and leaves no pair recorded, whatever the SPMD answered to
\* FFA_RXTX_UNMAP and whether or not the two grants could be revoked.
C34_UnmapSucceeds ==
    [][ \A c \in Cores :
           (pc[c] = "unmap_lock" /\ pc'[c] # "unmap_lock" /\ host_tx # NULL) =>
              /\ pc'[c] = "idle"
              /\ res'[c] = ffa_to_smccc_res(FFA_RET_SUCCESS)
              /\ host_tx' = NULL /\ host_rx' = NULL
              /\ Len(Answers(c)') = 1
              /\ lock' = 0 ]_vars
C34_Witness ==
    \E c \in Cores :
        /\ Done(c) /\ IsUnmapCall(c)
        /\ res[c] = ffa_to_smccc_res(FFA_RET_SUCCESS)
        /\ host_tx = NULL /\ host_rx = NULL
        /\ Len(Answers(c)) = 1 /\ Answers(c)[1].r.a0 = "FFA_ERROR"
        /\ \E k \in 1 .. Len(trace[c]) : trace[c][k].op = "unshare_hyp" /\ ~trace[c][k].ok
        /\ \E k \in 1 .. Len(trace[c]) : trace[c][k].op = "unshare_hyp" /\ trace[c][k].ok
        /\ spmd_mapped


\* C35: when a share or lend gets as far as the engine, the region header
\* with its first access entry, the composite header and every constituent
\* range lie within the first fraglen bytes of the staging buffer, which are
\* the bytes copied from the host in this call; so the pages shared are the
\* same whatever the staging buffer held before.
ReachesEngine(t) == \E k \in 1 .. Len(t) : t[k].op \in { "share", "smc" }
StaleBufs == { ZeroBuf } \cup GoodDescs
SharedWith(stale, fraglen) ==
    LET b == memcpy(stale, host_txbuf, fraglen)
        off == composite_off(b)
    IN ffa_host_share_ranges(owner, b, off, addr_range_cnt(b, off)).own
C35_ReadsWithinFragment ==
    [][ \A c \in Cores :
           (pc[c] = "xfer_lock" /\ pc'[c] # "xfer_lock" /\ ReachesEngine(trace'[c])) =>
              LET fraglen == regs[c].x2
                  buf == ffa_buffers'.tx
                  off == offset'[c]
                  cnt == addr_range_cnt(buf, off)
              IN /\ fraglen >= SZ_MEM_REGION + SZ_MEM_REGION_ATTRIBUTES
                 /\ fraglen <= MBOX_BYTES
                 /\ off = composite_off(buf)
                 /\ off + SZ_COMPOSITE_MEM_REGION <= fraglen
                 /\ cnt <= (fraglen - off - SZ_COMPOSITE_MEM_REGION) \div SZ_ADDR_RANGE
                 /\ \A w \in 1 .. BufWords : 4 * w <= fraglen => buf[w] = host_txbuf[w]
                 /\ \A stale \in StaleBufs : owner' = SharedWith(stale, fraglen) ]_vars
C35_Witness ==
    \E c \in Cores :
        /\ IsXferCall(c) /\ pc[c] = "xfer_smc"
        /\ regs[c].x2 = 80
        /\ Len(Events(c, "share")) = 1
        /\ \E w \in 21 .. BufWords : ffa_buffers.tx[w] # 0 /\ host_txbuf[w] = 0


\* C36: in a reclaim call in which the SPMD answered FFA_MEM_RECLAIM with
\* success, so that the ranges of the response are unshared, the composite
\* header at the returned offset and the constituent ranges it counts lie
\* within the rx buffer.
ReachedUnshare(c) ==
    /\ Done(c) /\ IsReclaimCall(c)
    /\ Len(Answers(c)) = 2
    /\ Answers(c)[2].r.a0 = "FFA_SUCCESS"
C36_RegionInsideRx ==
    \A c \in Cores :
        ReachedUnshare(c) =>
            LET off == offset[c]
            IN /\ off + SZ_COMPOSITE_MEM_REGION <= MBOX_BYTES
               /\ addr_range_cnt(ffa_buffers.rx, off)
                     <= (MBOX_BYTES - off - SZ_COMPOSITE_MEM_REGION) \div SZ_ADDR_RANGE


\* C37: once hyp_ffa_init has asked for it, an endpoint id other than the
\* host's, an FFA_FEATURES answer other than success, a minimum buffer size
\* that is none of the three sizes or that exceeds the page size each make
\* it return an error with the buffers and locks unassigned; and they are
\* assigned only when every check has passed.
Asked(f) == \E k \in 1 .. Len(boot.out.smcs) : boot.out.smcs[k] = f
BootFailed == boot.out.ret < 0 /\ ~boot.out.set /\ ffa_buffers = [tx |-> NULL, rx |-> NULL]
AllChecksPass(in) ==
    /\ in.smccc_version >= ARM_SMCCC_VERSION_1_2
    /\ in.ver = FFA_VERSION_1_0
    /\ in.id_a0 = "FFA_SUCCESS" /\ in.id_a2 = HOST_FFA_ID
    /\ in.feat_a0 = "FFA_SUCCESS"
    /\ in.feat_a2 \in { FFA_FEAT_RXTX_MIN_SZ_4K, FFA_FEAT_RXTX_MIN_SZ_16K,
                        FFA_FEAT_RXTX_MIN_SZ_64K }
    /\ min_rxtx_sz(in.feat_a2) <= in.page_size
C37_StartupFails ==
    boot.ran =>
        /\ (Asked("FFA_ID_GET") /\ boot.in.id_a0 = "FFA_SUCCESS" /\ boot.in.id_a2 # HOST_FFA_ID)
              => BootFailed
        /\ (Asked("FFA_FEATURES") /\ boot.in.feat_a0 # "FFA_SUCCESS") => BootFailed
        /\ (Asked("FFA_FEATURES") /\ boot.in.feat_a0 = "FFA_SUCCESS"
               /\ boot.in.feat_a2 \notin { FFA_FEAT_RXTX_MIN_SZ_4K, FFA_FEAT_RXTX_MIN_SZ_16K,
                                           FFA_FEAT_RXTX_MIN_SZ_64K }) => BootFailed
        /\ (Asked("FFA_FEATURES") /\ boot.in.feat_a0 = "FFA_SUCCESS"
               /\ min_rxtx_sz(boot.in.feat_a2) > boot.in.page_size) => BootFailed
        /\ (boot.out.set \/ ffa_buffers # [tx |-> NULL, rx |-> NULL]) =>
              (AllChecksPass(boot.in) /\ boot.out.ret = 0)
C37_Witness ==
    /\ boot.ran
    /\ Asked("FFA_FEATURES")
    /\ boot.in.feat_a0 = "FFA_SUCCESS"
    /\ boot.in.feat_a2 = FFA_FEAT_RXTX_MIN_SZ_64K
    /\ boot.in.page_size = SZ_16K
    /\ boot.out.ret = -EOPNOTSUPP
    /\ BootFailed


\* C38: when every other check passes, hyp_ffa_init takes the SPMD (assigns
\* the buffers and returns 0) exactly when the major version the SPMD
\* reports is at least that of FFA_VERSION_1_0.
FFA_MAJOR_VERSION(v) == v \div (2 ^ 16)
OtherChecksPass(in) ==
    /\ in.smccc_version >= ARM_SMCCC_VERSION_1_2
    /\ in.id_a0 = "FFA_SUCCESS" /\ in.id_a2 = HOST_FFA_ID
    /\ in.feat_a0 = "FFA_SUCCESS"
    /\ in.feat_a2 \in { FFA_FEAT_RXTX_MIN_SZ_4K, FFA_FEAT_RXTX_MIN_SZ_16K,
                        FFA_FEAT_RXTX_MIN_SZ_64K }
    /\ min_rxtx_sz(in.feat_a2) <= in.page_size
C38_AcceptsNewerVersions ==
    (boot.ran /\ OtherChecksPass(boot.in)) =>
        ((boot.out.set /\ boot.out.ret = 0)
           <=> (/\ boot.in.ver # FFA_RET_NOT_SUPPORTED
                /\ FFA_MAJOR_VERSION(boot.in.ver) >= FFA_MAJOR_VERSION(FFA_VERSION_1_0)))


\* C39: no call sends the SPMD the same request twice. A share or lend
\* sends at most one transfer and nothing else; a reclaim at most one
\* retrieve request and then at most one reclaim; a map at most one map and
\* then, only after a grant failed, at most one unmap; an unmap call at most
\* one unmap, and exactly one when it has the host's id and finds a pair
\* recorded (the calls that return FFA_SUCCESS).
SmcNames(c) == [k \in 1 .. Len(Events(c, "smc")) |-> Events(c, "smc")[k].f]
HypGrantFailed(c) ==
    \E k \in 1 .. Len(trace[c]) : trace[c][k].op = "share_hyp" /\ ~trace[c][k].ok
NoRetry(c) ==
    /\ IsXferCall(c) =>
          SmcNames(c) \in { << >>, << XferFuncId(regs[c].x0) >> }
    /\ IsReclaimCall(c) =>
          SmcNames(c) \in { << >>, << "FFA_FN64_MEM_RETRIEVE_REQ" >>,
                            << "FFA_FN64_MEM_RETRIEVE_REQ", "FFA_MEM_RECLAIM" >> }
    /\ IsMapCall(c) =>
          /\ SmcNames(c) \in { << >>, << "FFA_FN64_RXTX_MAP" >>,
                               << "FFA_FN64_RXTX_MAP", "FFA_RXTX_UNMAP" >> }
          /\ Len(SmcNames(c)) = 2 => HypGrantFailed(c)
    /\ IsUnmapCall(c) =>
          SmcNames(c) \in { << >>, << "FFA_RXTX_UNMAP" >> }
C39_Amended ==
    \A c \in Cores :
        /\ NoRetry(c)
        /\ (Done(c) /\ IsUnmapCall(c)) =>
              (SmcNames(c) = << "FFA_RXTX_UNMAP" >> <=> res[c].a0 = "FFA_SUCCESS")
\* C39 as stated: every unmap call sends exactly one unmap.
C39_Original ==
    \A c \in Cores :
        /\ NoRetry(c)
        /\ (Done(c) /\ IsUnmapCall(c)) => SmcNames(c) = << "FFA_RXTX_UNMAP" >>
C39_Witness ==
    \E c \in Cores :
        /\ Done(c) /\ IsMapCall(c)
        /\ SmcNames(c) = << "FFA_FN64_RXTX_MAP", "FFA_RXTX_UNMAP" >>
        /\ HypGrantFailed(c)
        /\ Len(Answers(c)) = 2
        /\ Answers(c)[2].r.a0 = "FFA_ERROR"
        /\ \E h \in Handles : spmd_held[h].live

====
